---- MODULE Spec2Model ----
(***************************************************************************)
(* Scrape orchestration and response normalisation of the social-media     *)
(* analytics backend:                                                      *)
(*   app/apis/apify_scraper      POST /apify_scraper/scrape                *)
(*   app/apis/social_scraper     POST /social_scraper/scrape, generators   *)
(*   app/apis/apify_integration  process_json_response, process_apify_data *)
(*                                                                         *)
(* Spec      the two scrape endpoints, their rate-limit ledgers, the wall  *)
(*           clock and the vendor job lifecycle of concurrent requests.    *)
(* SpecNorm  the normalisers and the synthetic generators applied to       *)
(*           bounded vendor payloads, with the shared random generator.    *)
(*                                                                         *)
(* Time is counted in ticks, TicksPerSecond to the second, so that the     *)
(* int() truncation of the computed wait times is visible.                 *)
(***************************************************************************)
EXTENDS Integers, Sequences, FiniteSets, TLC

VARIABLES
    now,                       \* time.time(), in ticks
    apify_last_scrape_times,   \* apify_scraper.last_scrape_times
    social_last_scrape_times,  \* social_scraper.last_scrape_times
    req,                       \* the requests being handled, one per slot
    arrivals,                  \* the number of requests received so far
    rng,                       \* state of the process-wide random generator
    norm_in,                   \* SpecNorm: the payload and platform last normalised
    norm_out,                  \* SpecNorm: what the normaliser returned for it
    norm_log                   \* SpecNorm: every (platform, payload, followers, following, posts) seen

vars == <<now, apify_last_scrape_times, social_last_scrape_times, req, arrivals,
          rng, norm_in, norm_out, norm_log>>

orch_vars == <<now, apify_last_scrape_times, social_last_scrape_times, req, arrivals>>
norm_vars == <<rng, norm_in, norm_out, norm_log>>

----------------------------------------------------------------------------
(* Bounds of the model *)

MaxReq == 2
MaxArrivals == 3
TicksPerSecond == 2
RngModulus == 8

Slots == 1..MaxReq

\* The instants at which the clock is observed, in ticks: inside the tight
\* window, inside the wait window (also by a fraction of a second), at and
\* past the platform interval, and past the platform+username interval.
Instants ==
    {s * TicksPerSecond : s \in {0, 4, 12, 26, 30, 620}}
        \cup {29 * TicksPerSecond + 1}

\* The (platform, username) pairs of the requests: a platform with a vendor
\* actor, the same in another case for another user, the platform that is
\* answered without a job, and one that is not supported.
RequestInputs ==
    {<<"instagram", "alice">>, <<"Instagram", "bob">>,
     <<"tiktok", "alice">>, <<"myspace", "bob">>}

----------------------------------------------------------------------------
(* Program constants *)

apify_MIN_SCRAPE_INTERVAL == 30
TIGHT_WINDOW == 10
MAX_RATE_SLEEP == 5
max_wait_time == 300
poll_interval == 5
max_attempts == 15
PollUrls == 2
backoff == 5
social_MIN_SCRAPE_INTERVAL == 600

PLATFORM_CONFIGS == {"instagram", "twitter", "facebook", "youtube", "tiktok"}

Unset == 0 - 1

Min(a, b) == IF a < b THEN a ELSE b

\* str.lower() on the platform strings of the model
Lower(p) ==
    CASE p = "Instagram" -> "instagram"
      [] p = "MySpace" -> "myspace"
      [] p = "X" -> "x"
      [] OTHER -> p

----------------------------------------------------------------------------
(* Python / JSON values.  Every value is tagged with its type, so that a   *)
(* list is never confused with a dict and None is a value of its own.      *)
(* A str is the sequence of its characters.                                *)

PyNone == [t |-> "null"]
JNum(n) == [t |-> "num", n |-> n]
JStr(s) == [t |-> "str", s |-> s]
JList(items) == [t |-> "list", items |-> items]
JDict(d) == [t |-> "dict", d |-> d]
\* the value standing for "this expression raised"
Raised == [t |-> "exc"]

EmptyDict == JDict(<<>>)

IsNum(v) == v.t = "num"
IsDict(v) == v.t = "dict"
IsList(v) == v.t = "list"

\* bool(v)
Truthy(v) ==
    CASE v.t = "null" -> FALSE
      [] v.t = "num" -> v.n # 0
      [] v.t = "str" -> Len(v.s) > 0
      [] v.t = "list" -> Len(v.items) > 0
      [] v.t = "dict" -> DOMAIN v.d # {}
      [] v.t = "exc" -> FALSE

\* v.get(k, dflt): AttributeError unless v is a dict
Get(v, k, dflt) ==
    IF v.t = "dict"
    THEN IF k \in DOMAIN v.d THEN v.d[k] ELSE dflt
    ELSE Raised

\* a or b
Or(a, b) == IF a.t = "exc" THEN Raised ELSE IF Truthy(a) THEN a ELSE b

\* k in v, for a dict v
HasKey(v, k) == v.t = "dict" /\ k \in DOMAIN v.d

\* F(x) for x the value of e: e is evaluated once, as an assignment does
Let(e, F(_)) == CHOOSE r \in {F(x) : x \in {e}} : TRUE

----------------------------------------------------------------------------
(* Count/unit parser: apify_integration.parse_count *)

Digits == {"0", "1", "2", "3", "4", "5", "6", "7", "8", "9"}

DigitVal(c) ==
    CASE c = "0" -> 0 [] c = "1" -> 1 [] c = "2" -> 2 [] c = "3" -> 3
      [] c = "4" -> 4 [] c = "5" -> 5 [] c = "6" -> 6 [] c = "7" -> 7
      [] c = "8" -> 8 [] c = "9" -> 9

DigitChar(n) ==
    CASE n = 0 -> "0" [] n = 1 -> "1" [] n = 2 -> "2" [] n = 3 -> "3"
      [] n = 4 -> "4" [] n = 5 -> "5" [] n = 6 -> "6" [] n = 7 -> "7"
      [] n = 8 -> "8" [] n = 9 -> "9"

RECURSIVE Pow10(_)
Pow10(k) == IF k = 0 THEN 1 ELSE 10 * Pow10(k - 1)

\* str(n) for an int n
RECURSIVE NatStr(_)
NatStr(n) == IF n < 10 THEN <<DigitChar(n)>> ELSE NatStr(n \div 10) \o <<DigitChar(n % 10)>>
IntStr(n) == IF n < 0 THEN <<"-">> \o NatStr(0 - n) ELSE NatStr(n)

\* str(v) for the values a count field holds
PyStr(v) ==
    CASE v.t = "num" -> IntStr(v.n)
      [] v.t = "str" -> v.s

\* c.lower() on the characters of the model
LowerChar(c) ==
    CASE c = "K" -> "k" [] c = "M" -> "m" [] c = "B" -> "b" [] OTHER -> c

StrLower(s) == [i \in 1..Len(s) |-> LowerChar(s[i])]

RECURSIVE LStrip(_)
LStrip(s) == IF Len(s) > 0 /\ s[1] = " " THEN LStrip(Tail(s)) ELSE s
RECURSIVE RStrip(_)
RStrip(s) == IF Len(s) > 0 /\ s[Len(s)] = " " THEN RStrip(SubSeq(s, 1, Len(s) - 1)) ELSE s
Strip(s) == RStrip(LStrip(s))

\* s.replace(c, '')
Remove(s, c) == SelectSeq(s, LAMBDA x : x # c)

Contains(s, c) == \E i \in 1..Len(s) : s[i] = c

\* the value of a run of digits
RECURSIVE DigitsVal(_)
DigitsVal(s) == IF Len(s) = 0 THEN 0 ELSE DigitsVal(SubSeq(s, 1, Len(s) - 1)) * 10 + DigitVal(s[Len(s)])

AllDigits(s) == \A i \in 1..Len(s) : s[i] \in Digits

\* float(s) as the exact decimal mant / 10^scale; ok = FALSE is ValueError.
\* float() strips blanks itself and takes "12", "12.", ".5", "1.5" and a sign.
ParseFloat(s0) ==
    LET s1 == Strip(s0)
        neg == Len(s1) > 0 /\ s1[1] = "-"
        s == IF Len(s1) > 0 /\ s1[1] \in {"-", "+"} THEN Tail(s1) ELSE s1
        dots == {i \in 1..Len(s) : s[i] = "."}
        dot == IF dots = {} THEN Len(s) + 1 ELSE CHOOSE i \in dots : \A j \in dots : i <= j
        ip == SubSeq(s, 1, dot - 1)
        fp == SubSeq(s, dot + 1, Len(s))
        ok == /\ Cardinality(dots) <= 1
              /\ AllDigits(ip) /\ AllDigits(fp)
              /\ Len(ip) + Len(fp) > 0
        mant == DigitsVal(ip) * Pow10(Len(fp)) + DigitsVal(fp)
    IN  IF ok
        THEN [ok |-> TRUE, mant |-> IF neg THEN 0 - mant ELSE mant, scale |-> Len(fp)]
        ELSE [ok |-> FALSE, mant |-> 0, scale |-> 0]

\* int(x): truncation toward zero of mant * mult / 10^scale
IntTrunc(num, den) ==
    IF num >= 0 THEN num \div den ELSE 0 - ((0 - num) \div den)

\* int(float(text.replace(unit, '')) * mult)
ScaledCount(text, unit, mult) ==
    Let(ParseFloat(Remove(text, unit)), LAMBDA f :
        IF f.ok THEN JNum(IntTrunc(f.mant * mult, Pow10(f.scale))) ELSE Raised)

\* re.findall(r'\d+\.?\d*', text)[0]: the first run of digits, a dot after
\* it if there is one, and the digits after the dot
FirstNumber(text) ==
    LET starts == {i \in 1..Len(text) : text[i] \in Digits}
        a == CHOOSE i \in starts : \A j \in starts : i <= j
        EndRun(from) ==
            CHOOSE e \in (from - 1)..Len(text) :
                /\ \A j \in from..e : text[j] \in Digits
                /\ (e = Len(text) \/ text[e + 1] \notin Digits)
        e1 == EndRun(a)
        hasDot == e1 < Len(text) /\ text[e1 + 1] = "."
        e2 == IF hasDot THEN EndRun(e1 + 2) ELSE e1
    IN  IF starts = {} THEN <<>> ELSE SubSeq(text, a, e2)

parse_count(v) ==
    IF ~Truthy(v) THEN PyNone
    ELSE
        Let(Remove(StrLower(Strip(PyStr(v))), ","), LAMBDA text :
            IF Contains(text, "k") THEN ScaledCount(text, "k", 1000)
            ELSE IF Contains(text, "m") THEN ScaledCount(text, "m", 1000000)
            ELSE IF Contains(text, "b") THEN ScaledCount(text, "b", 1000000000)
            ELSE Let(FirstNumber(text), LAMBDA numbers :
                 Let(ParseFloat(numbers), LAMBDA f :
                     IF Len(numbers) > 0
                     THEN JNum(IntTrunc(f.mant, Pow10(f.scale)))
                     ELSE PyNone)))

\* social_scraper.parse_count, lines 61-83: text.strip() where
\* apify_integration has str(text).strip()
social_parse_count(v) ==
    IF ~Truthy(v) THEN PyNone
    ELSE IF v.t # "str" THEN Raised
    ELSE parse_count(v)

----------------------------------------------------------------------------
(* apify_integration.detect_platform_from_url.  A URL is the sequence of
   its characters. *)

UpperCase == <<"A", "B", "C", "D", "E", "F", "G", "H", "I", "J", "K", "L", "M",
              "N", "O", "P", "Q", "R", "S", "T", "U", "V", "W", "X", "Y", "Z">>
LowerCase == <<"a", "b", "c", "d", "e", "f", "g", "h", "i", "j", "k", "l", "m",
              "n", "o", "p", "q", "r", "s", "t", "u", "v", "w", "x", "y", "z">>

\* url.lower()
lower(text) ==
    [k \in 1..Len(text) |->
        IF \E n \in 1..26 : UpperCase[n] = text[k]
        THEN LowerCase[CHOOSE n \in 1..26 : UpperCase[n] = text[k]]
        ELSE text[k]]

\* sub in text
In(sub, text) ==
    \E k \in 0..(Len(text) - Len(sub)) : SubSeq(text, k + 1, k + Len(sub)) = sub

DotCom == <<".", "c", "o", "m">>
InstagramCom == <<"i", "n", "s", "t", "a", "g", "r", "a", "m">> \o DotCom
TwitterCom == <<"t", "w", "i", "t", "t", "e", "r">> \o DotCom
XCom == <<"x">> \o DotCom
FacebookCom == <<"f", "a", "c", "e", "b", "o", "o", "k">> \o DotCom
FbCom == <<"f", "b">> \o DotCom
TiktokCom == <<"t", "i", "k", "t", "o", "k">> \o DotCom
YoutubeCom == <<"y", "o", "u", "t", "u", "b", "e">> \o DotCom
YoutuBe == <<"y", "o", "u", "t", "u", ".", "b", "e">>
LinkedinCom == <<"l", "i", "n", "k", "e", "d", "i", "n">> \o DotCom

Platform(name) == [t |-> "platform", value |-> name]

\* lines 110-126
detect_platform_from_url(url0) ==
    Let(lower(url0), LAMBDA url :
        IF In(InstagramCom, url) THEN Platform("instagram")
        ELSE IF In(TwitterCom, url) \/ In(XCom, url) THEN Platform("twitter")
        ELSE IF In(FacebookCom, url) \/ In(FbCom, url) THEN Platform("facebook")
        ELSE IF In(TiktokCom, url) THEN Platform("tiktok")
        ELSE IF In(YoutubeCom, url) \/ In(YoutuBe, url) THEN Platform("youtube")
        ELSE IF In(LinkedinCom, url) THEN Platform("linkedin")
        ELSE PyNone)

Https == <<"h", "t", "t", "p", "s", ":", "/", "/">>

\* profile URLs, each with the host it is on: the known domains, bare,
\* below a subdomain and in capitals; a host that ends in the letters of a
\* known domain; a foreign host with a known domain in its path; a known
\* host with another known domain in its path
ProfileUrls ==
    {[host |-> InstagramCom, url |-> Https \o InstagramCom \o <<"/", "f", "o", "o">>],
     [host |-> <<"X", ".", "C", "O", "M">>,
      url |-> <<"H", "T", "T", "P", "S", ":", "/", "/", "X", ".", "C", "O", "M", "/", "a">>],
     [host |-> <<"w", "w", "w", ".">> \o TwitterCom,
      url |-> Https \o <<"w", "w", "w", ".">> \o TwitterCom \o <<"/", "a">>],
     [host |-> FbCom, url |-> Https \o FbCom \o <<"/", "p">>],
     [host |-> <<"m", ".">> \o FacebookCom,
      url |-> Https \o <<"m", ".">> \o FacebookCom \o <<"/", "p">>],
     [host |-> TiktokCom, url |-> Https \o TiktokCom \o <<"/", "@", "a">>],
     [host |-> YoutuBe, url |-> Https \o YoutuBe \o <<"/", "v">>],
     [host |-> YoutubeCom, url |-> Https \o YoutubeCom \o <<"/", "c">>],
     [host |-> LinkedinCom, url |-> Https \o LinkedinCom \o <<"/", "i", "n", "/", "a">>],
     [host |-> <<"b", "o">> \o XCom, url |-> Https \o <<"b", "o">> \o XCom \o <<"/", "a">>],
     [host |-> <<"a", ".", "o", "r", "g">>,
      url |-> Https \o <<"a", ".", "o", "r", "g", "/", "a">>],
     [host |-> <<"a", ".", "o", "r", "g">>,
      url |-> Https \o <<"a", ".", "o", "r", "g", "/">> \o FbCom],
     [host |-> FacebookCom, url |-> Https \o FacebookCom \o <<"/">> \o InstagramCom]}

----------------------------------------------------------------------------
(* apify_integration: the normalizer of a vendor response *)

Exception(msg) == [t |-> "exc", msg |-> msg]
InvalidJson == [t |-> "invalid"]

\* the "data" and "items" branches left out
items_of_list_only(data) ==
    CASE data.t = "list" -> data.items
      [] data.t = "dict" -> <<data>>
      [] OTHER -> <<>>

\* process_json_response, lines 231-245: the items of the parsed response
items_of(data) ==
    CASE data.t = "list" -> data.items
      [] data.t = "dict" ->
            IF HasKey(data, "data")
            THEN CASE data.d["data"].t = "dict" -> <<data.d["data"]>>
                   [] data.d["data"].t = "list" -> data.d["data"].items
                   [] OTHER -> <<>>
            ELSE IF HasKey(data, "items") /\ data.d["items"].t = "list"
            THEN data.d["items"].items
            ELSE <<data>>
      [] OTHER -> <<>>

\* process_json_response, lines 224-252: raw_data, or what is raised
first_item(data) ==
    IF data.t = "invalid" THEN Exception("Invalid JSON response from Apify")
    ELSE IF data.t = "null" THEN Exception("Apify returned null response")
    ELSE IF Len(items_of(data)) = 0
    THEN Exception("No data items found in Apify response")
    ELSE items_of(data)[1]

\* the keys of followers, following and posts, lines 172-216; "" for a
\* field that keeps its initial 0
count_keys(platform) ==
    CASE platform = "instagram" -> <<"followersCount", "followsCount", "postsCount">>
      [] platform = "twitter" -> <<"followersCount", "friendsCount", "statusesCount">>
      [] platform = "facebook" -> <<"followers", "", "">>
      [] platform = "tiktok" -> <<"followerCount", "followingCount", "videoCount">>
      [] platform = "youtube" -> <<"subscriberCount", "", "videoCount">>
      [] OTHER -> <<"", "", "">>

\* process_apify_data, lines 158-219
process_apify_data(raw_data, platform) ==
    LET keys == count_keys(platform)
        field(k) == IF k = "" THEN JNum(0) ELSE parse_count(Get(raw_data, k, JNum(0)))
    IN  IF platform = "linkedin"
        THEN [t |-> "profile", platform |-> platform, followers |-> JNum(0),
              following |-> JNum(0), posts |-> JNum(0),
              daily_stats |-> PyNone, content_performance |-> PyNone]
        ELSE IF ~IsDict(raw_data) THEN Exception("AttributeError")
        ELSE
            Let(field(keys[1]), LAMBDA followers :
            Let(field(keys[2]), LAMBDA following :
            Let(field(keys[3]), LAMBDA posts :
                IF Raised \in {followers, following, posts}
                THEN Exception("ValueError")
                ELSE [t |-> "profile", platform |-> platform, followers |-> followers,
                      following |-> following, posts |-> posts,
                      daily_stats |-> PyNone, content_performance |-> PyNone])))

\* process_json_response, lines 222-259
process_json_response(data, platform) ==
    Let(first_item(data), LAMBDA raw_data :
        IF raw_data.t = "exc" THEN raw_data ELSE process_apify_data(raw_data, platform))

----------------------------------------------------------------------------
(* apify_scraper: mapping of the dataset of a finished run to ScrapedData. *)
(* The result is one of                                                    *)
(*   [kind |-> "fallback"]    generate_fallback_data is returned instead   *)
(*   [kind |-> "exception"]   the code raised (caught at line 679)         *)
(*   [kind |-> "data", followers, following, posts, views, series]         *)
(* where series says whether generate_time_series and                      *)
(* generate_content_performance are called for dailyStats and              *)
(* contentPerformance (both stay None otherwise).                          *)

MapFallback == [kind |-> "fallback"]
MapException == [kind |-> "exception"]
\* the code raised after both series had been generated
MapExceptionAfterSeries(followers) ==
    [kind |-> "exception", series |-> TRUE, followers |-> followers]
MapData(followers, following, posts, views, series) ==
    [kind |-> "data", followers |-> followers, following |-> following,
     posts |-> posts, views |-> views, series |-> series]

\* a missing count filled in from the generator
CoerceInt_estimated(v) ==
    CASE v.t = "null" -> JNum(rng)
      [] v.t = "num" -> v
      [] OTHER -> Raised

\* pydantic's validation of an Optional[int] field
CoerceInt(v) ==
    CASE v.t = "null" -> PyNone
      [] v.t = "num" -> v
      [] v.t = "str" ->
            LET s == Strip(v.s)
            IN  IF Len(s) > 0 /\ AllDigits(s) THEN JNum(DigitsVal(s)) ELSE Raised
      [] OTHER -> Raised

\* ScrapedData(...) of the mapped fields once "followers > 0" was evaluated:
\* a TypeError unless followers is a number, a ValidationError for a field
\* that is no int
BuildData(followers, following, posts, views, always_series) ==
    LET fo == CoerceInt(following)
        po == CoerceInt(posts)
        vi == CoerceInt(views)
    IN  IF ~IsNum(followers) \/ Raised \in {fo, po, vi}
        THEN MapException
        ELSE MapData(followers, fo, po, vi, always_series \/ followers.n > 0)

\* len(results) and results[0] of lines 259-268: a TypeError for null and
\* numbers, a KeyError or AttributeError for a dict or a str
FirstResult(results) ==
    IF IsList(results) /\ Len(results.items) > 0 THEN results.items[1] ELSE Raised

\* lines 262-306
MapInstagram(results) ==
    LET profile_data == FirstResult(results)
    IN  IF ~IsDict(profile_data) THEN MapException
        ELSE BuildData(Get(profile_data, "followersCount", JNum(0)),
                       Get(profile_data, "followsCount", JNum(0)),
                       Get(profile_data, "postsCount", JNum(0)),
                       PyNone, FALSE)

\* lines 473-519
MapFacebook(results) ==
    LET profile_data == FirstResult(results)
        g(k) == Get(profile_data, k, PyNone)
        followers ==
            Or(g("likesCount"), Or(g("likes_count"), Or(g("likes"),
            Or(g("followersCount"), Or(g("followers_count"), Or(g("followers"),
            JNum(0)))))))
    IN  IF ~IsDict(profile_data) THEN MapException
        ELSE BuildData(followers, PyNone,
                       Get(profile_data, "postsCount", JNum(0)), PyNone, FALSE)

\* lines 521-579
MapYoutube(results) ==
    LET profile_data == FirstResult(results)
        g(k) == Get(profile_data, k, PyNone)
        subscribers ==
            Or(g("subscriberCount"), Or(g("subscriber_count"), Or(g("subscribers"),
            Or(g("subscribersCount"), JNum(0)))))
        views ==
            Or(g("viewCount"), Or(g("view_count"), Or(g("views"),
            Or(g("viewsCount"), JNum(0)))))
        videos ==
            Or(g("videoCount"), Or(g("video_count"), Or(g("videos"),
            Or(g("videosCount"), JNum(0)))))
    IN  IF ~IsDict(profile_data) THEN MapException
        ELSE BuildData(subscribers, PyNone, videos, views, FALSE)

\* needle in json.dumps(v), for the key names of the model: a key that is
\* the needle or holds it as a substring, at any depth
KeyContains(k, needle) ==
    \/ k = needle
    \/ needle = "followers_count" /\ k \in {"fast_followers_count", "normal_followers_count"}

RECURSIVE MentionsBare(_, _)
MentionsBare(v, needle) ==
    CASE v.t = "dict" ->
            \E k \in DOMAIN v.d : KeyContains(k, needle) \/ MentionsBare(v.d[k], needle)
      [] v.t = "list" ->
            \E i \in 1..Len(v.items) : MentionsBare(v.items[i], needle)
      [] OTHER -> FALSE

\* '"key"' in json.dumps(v): exactly that key, at any depth
RECURSIVE MentionsQuoted(_, _)
MentionsQuoted(v, key) ==
    CASE v.t = "dict" ->
            \E k \in DOMAIN v.d : k = key \/ MentionsQuoted(v.d[k], key)
      [] v.t = "list" ->
            \E i \in 1..Len(v.items) : MentionsQuoted(v.items[i], key)
      [] OTHER -> FALSE

\* x if isinstance(x, dict) else None
DictOrNone(x) == IF x.t = "exc" THEN Raised ELSE IF IsDict(x) THEN x ELSE PyNone

\* the six lambdas of lines 322-336
TwitterApproach(n, tweet) ==
    CASE n = 1 -> DictOrNone(Get(tweet, "user", PyNone))
      [] n = 2 -> DictOrNone(Get(tweet, "author", PyNone))
      [] n = 3 -> DictOrNone(Get(tweet, "user_data", PyNone))
      [] n = 4 -> DictOrNone(Get(Get(Get(Get(tweet, "tweet", EmptyDict), "core", EmptyDict),
                                     "user_results", EmptyDict), "result", PyNone))
      [] n = 5 -> DictOrNone(Get(tweet, "legacy", PyNone))
      [] n = 6 -> DictOrNone(Get(Get(tweet, "data", EmptyDict), "user", PyNone))

\* the any([...]) of lines 342-347: the four lookups are all evaluated
TwitterHasFollowers(e) ==
    LET a == Get(e, "followers_count", PyNone)
        b == Get(e, "followersCount", PyNone)
        c == Get(e, "followers", PyNone)
        d == Get(Get(e, "legacy", EmptyDict), "followers_count", PyNone)
    IN  IF Raised \in {a, b, c, d} THEN Raised
        ELSE IF Truthy(a) \/ Truthy(b) \/ Truthy(c) \/ Truthy(d) THEN JNum(1) ELSE JNum(0)

\* lines 339-354: the first (tweet, approach) that yields user data, PyNone
\* when none does, Raised when the search raises before it finds one
RECURSIVE TwitterDirect(_, _, _)
TwitterDirect(tweets, ti, ai) ==
    IF ti > Min(5, Len(tweets)) THEN PyNone
    ELSE IF ai > 6 THEN TwitterDirect(tweets, ti + 1, 1)
    ELSE
        LET e == TwitterApproach(ai, tweets[ti])
            has == IF e.t = "exc" THEN Raised
                   ELSE IF ~Truthy(e) THEN JNum(0)
                   ELSE TwitterHasFollowers(e)
        IN  IF has.t = "exc" THEN Raised
            ELSE IF has.n = 1 THEN e
            ELSE TwitterDirect(tweets, ti, ai + 1)

\* lines 357-374: the first tweet that mentions a follower field; its "user"
\* when it has one, else the tweet itself
RECURSIVE TwitterTargeted(_, _)
TwitterTargeted(tweets, ti) ==
    IF ti > Min(5, Len(tweets)) THEN [found |-> FALSE, profile |-> PyNone]
    ELSE
        LET tweet == tweets[ti]
        IN  IF \E f \in {"followers_count", "followersCount", "followers"} :
                    MentionsQuoted(tweet, f)
            THEN [found |-> TRUE,
                  profile |-> IF HasKey(tweet, "user") THEN tweet.d["user"] ELSE tweet]
            ELSE TwitterTargeted(tweets, ti + 1)

\* lines 385-435: one metric of the profile
TwitterMetric(profile_data, snake, others) ==
    LET g(k) == Get(profile_data, k, PyNone)
        RECURSIVE Chain(_)
        Chain(ks) == IF Len(ks) = 0 THEN JNum(0) ELSE Or(g(Head(ks)), Chain(Tail(ks)))
    IN  IF MentionsBare(profile_data, snake)
        THEN Or(g(snake),
             Or(Get(Get(profile_data, "legacy", EmptyDict), snake, PyNone),
             Or(Get(Get(profile_data, "user", EmptyDict), snake, PyNone),
                JNum(0))))
        ELSE Chain(others)

\* int(v) of lines 446-447 goes through
PyIntOk(v) ==
    CASE v.t = "num" -> TRUE
      [] v.t = "str" -> LET s == Strip(v.s) IN Len(s) > 0 /\ AllDigits(s)
      [] OTHER -> FALSE

\* lines 307-471
MapTwitter(results) ==
    LET tweets == results.items
        direct == TwitterDirect(tweets, 1, 1)
        targeted == TwitterTargeted(tweets, 1)
        found == Truthy(direct) \/ targeted.found
        profile_data == IF Truthy(direct) THEN direct ELSE targeted.profile
        followers == TwitterMetric(profile_data, "followers_count",
                                   <<"followersCount", "followers">>)
        following == TwitterMetric(profile_data, "following_count",
                                   <<"followingCount", "following">>)
        posts == TwitterMetric(profile_data, "statuses_count",
                               <<"statusesCount", "tweetsCount", "tweets_count", "tweets">>)
    IN  IF ~IsList(results) \/ direct.t = "exc" THEN MapException
        ELSE IF ~found \/ ~Truthy(profile_data) THEN MapFallback
        ELSE IF Raised \in {followers, following, posts} THEN MapException
        ELSE IF ~IsNum(followers) THEN MapException
        ELSE IF \E k \in {"likesCount", "repliesCount"} :
                    HasKey(profile_data, k) /\ ~PyIntOk(profile_data.d[k])
        THEN MapExceptionAfterSeries(followers)
        ELSE BuildData(followers, following, posts, PyNone, TRUE)

\* lines 261-677: "if not results" first, then the platform's mapping.
\* A tiktok request never gets here (line 156), so lines 581-677 are dead.
ProcessResults(platform, results) ==
    IF results.t \in {"null", "num"} THEN MapException
    ELSE IF ~Truthy(results) THEN MapFallback
    ELSE CASE platform = "instagram" -> MapInstagram(results)
           [] platform = "twitter" -> MapTwitter(results)
           [] platform = "facebook" -> MapFacebook(results)
           [] platform = "youtube" -> MapYoutube(results)

----------------------------------------------------------------------------
(* The process-wide generator of the "random" module.  Its state is one of
   RngModulus values; a draw returns the state as the fraction
   state / RngModulus of [0, 1) and moves to the next state.  Floats are
   kept as integers in a stated unit, so a uniform draw falls on a grid. *)

RngStates == 0..(RngModulus - 1)

\* the state after one draw
random_next(s) == (5 * s + 3) % RngModulus

\* the generator left in the state it is in
random_seed_skipped(seed) == rng

\* random.seed(seed)
random_seed(seed) == seed % RngModulus

\* random.uniform(lo, hi) = lo + (hi - lo) * random(), in the unit of lo, hi
Uniform(lo, hi, s) == lo + ((hi - lo) * s) \div RngModulus

\* random.randint(a, b)
RandInt(a, b, s) == a + ((b - a + 1) * s) \div RngModulus

\* random.choice(seq)
Choice(seq, s) == seq[1 + (Len(seq) * s) \div RngModulus]

\* quotient and remainder of f * k by d, by doubling: no product leaves the
\* range of the integers of the checker
RECURSIVE MulDivQR(_, _, _)
MulDivQR(f, k, d) ==
    IF k = 0 THEN [q |-> 0, r |-> 0]
    ELSE Let(MulDivQR(f, k \div 2, d),
             LAMBDA h :
                LET r2 == 2 * h.r + (IF k % 2 = 1 THEN f % d ELSE 0)
                    q2 == 2 * h.q + (IF k % 2 = 1 THEN f \div d ELSE 0)
                IN  [q |-> q2 + r2 \div d, r |-> r2 % d])

\* int(f * k / d) for f, k >= 0: at once when the product is in range
MulDiv(f, k, d) ==
    IF k = 0 \/ f <= 2147483647 \div k THEN (f * k) \div d ELSE MulDivQR(f, k, d).q

----------------------------------------------------------------------------
(* Synthetic metrics: social_scraper.generate_time_series and
   generate_content_performance.  Dates are day numbers. *)

SERIES_DAYS == 30
CONTENT_ITEMS == 10

\* date.strftime("%Y-%m-%d") of the day with number day (day 0 is
\* 1970-01-01): the year, the month and the day of the text, which is of
\* fixed width, so that the texts are ordered as these triples are
strftime(day) ==
    LET z == day + 719468
        era == z \div 146097
        doe == z % 146097
        yoe == (doe - doe \div 1460 + doe \div 36524 - doe \div 146096) \div 365
        doy == doe - (365 * yoe + yoe \div 4 - yoe \div 100)
        mp == (5 * doy + 2) \div 153
        d == doy - (153 * mp + 2) \div 5 + 1
        m == IF mp < 10 THEN mp + 3 ELSE mp - 9
        y == yoe + era * 400 + (IF m <= 2 THEN 1 ELSE 0)
    IN  <<y, m, d>>

\* the entries appended, not put in front
time_series_step_appending(i, st, growth, base, today) ==
    [current_followers |-> MulDiv(st.current_followers, 10000, 10000 + growth),
     rng |-> random_next(random_next(st.rng)),
     result |-> Append(st.result,
                       [date |-> strftime(today - i), followers |-> st.current_followers,
                        engagement |-> base \div 100])]

\* lines 100-119, one turn of the loop: the entry is put in front and the
\* followers of the day before are computed.  growth is the daily growth
\* rate in units of 0.0001, base the engagement rate in units of 0.0001,
\* the entry's engagement a percentage in units of 0.01.
time_series_step(i, st, growth, base, today) ==
    LET variation == Uniform(0 - 10, 10, st.rng)
        s1 == random_next(st.rng)
        engagement == (base * (100 + variation) + 50) \div 100
        with_views == 2 * s1 > RngModulus
        s2 == random_next(s1)
        entry ==
            IF with_views
            THEN [date |-> strftime(today - i), followers |-> st.current_followers,
                  engagement |-> engagement,
                  views |-> MulDiv(st.current_followers, Uniform(200, 500, s2), 100)]
            ELSE [date |-> strftime(today - i), followers |-> st.current_followers,
                  engagement |-> engagement]
    IN  [current_followers |-> MulDiv(st.current_followers, 10000, 10000 + growth),
         rng |-> IF with_views THEN random_next(s2) ELSE s2,
         result |-> <<entry>> \o st.result]

\* for i in range(30)
RECURSIVE time_series_loop(_, _, _, _, _)
time_series_loop(i, st, growth, base, today) ==
    IF i = SERIES_DAYS THEN [value |-> st.result, rng |-> st.rng]
    ELSE Let(time_series_step(i, st, growth, base, today),
             LAMBDA next : time_series_loop(i + 1, next, growth, base, today))

\* the loop entered at its second turn
generate_time_series_short(followers, s, today) ==
    time_series_loop(1, [current_followers |-> followers, rng |-> s, result |-> <<>>],
                     10, 300, today)

\* social_scraper.generate_time_series, lines 86-121
generate_time_series(followers, s, today) ==
    LET daily_growth_rate == Uniform(5, 30, s)
        s1 == random_next(s)
        base_engagement_rate == Uniform(100, 500, s1)
        s2 == random_next(s1)
    IN  time_series_loop(0, [current_followers |-> followers, rng |-> s2, result |-> <<>>],
                         daily_growth_rate, base_engagement_rate, today)

\* one list of types for every platform
content_types_any(platform) == <<"post", "reel", "story", "video", "article">>

\* lines 129-136 and the default of line 139
content_types(platform) ==
    CASE platform = "instagram" -> <<"post", "reel", "story">>
      [] platform = "twitter" -> <<"post">>
      [] platform = "facebook" -> <<"post", "video">>
      [] platform = "tiktok" -> <<"video">>
      [] platform = "youtube" -> <<"video">>
      [] platform = "linkedin" -> <<"post", "article">>
      [] OTHER -> <<"post">>

\* lines 142-148
title_templates(content_type) ==
    CASE content_type = "post" -> <<"New Update", "Big Announcement", "Behind the Scenes">>
      [] content_type = "video" -> <<"Tutorial: How To", "Vlog", "Product Review">>
      [] content_type = "story" -> <<"Daily Update", "Quick Tip", "Special Offer">>
      [] content_type = "reel" -> <<"Trending Challenge", "Quick Tutorial", "Fun Moment">>
      [] content_type = "article" -> <<"Industry Analysis", "Expert Guide", "Case Study">>

\* line 163, in tenths
type_factors(content_type) ==
    CASE content_type = "post" -> 10
      [] content_type = "video" -> 12
      [] content_type = "story" -> 8
      [] content_type = "reel" -> 15
      [] content_type = "article" -> 9

\* lines 151-188, one turn of the loop.  base_engagement is
\* followers * u / 100 * (12 - i) / 12 * type_factor / 10.
content_step(i, st, followers, platform, today, clock) ==
    LET content_type == Choice(content_types(platform), st.rng)
        s1 == random_next(st.rng)
        date == strftime(today - (i * 3 + RandInt(0, 2, s1)))
        s2 == random_next(s1)
        u == Uniform(1, 6, s2)
        s3 == random_next(s2)
        weight == u * (12 - i) * type_factors(content_type)
        title == Choice(title_templates(content_type), s3)
        s4 == random_next(s3)
        likes == MulDiv(followers, weight * Uniform(6, 11, s4), 120000)
        s5 == random_next(s4)
        comments == MulDiv(followers, weight * Uniform(5, 15, s5), 1200000)
        s6 == random_next(s5)
        shares == MulDiv(followers, weight * Uniform(2, 8, s6), 1200000)
        s7 == random_next(s6)
        with_views ==
            content_type \in {"video", "reel"} \/ platform \in {"youtube", "tiktok"}
        id == <<"content", clock, i>>
        item ==
            IF with_views
            THEN [id |-> id, type |-> content_type, title |-> title, date |-> date,
                  likes |-> likes, comments |-> comments, shares |-> shares,
                  views |-> MulDiv(followers, weight * Uniform(3, 8, s7), 12000)]
            ELSE [id |-> id, type |-> content_type, title |-> title, date |-> date,
                  likes |-> likes, comments |-> comments, shares |-> shares]
    IN  [rng |-> IF with_views THEN random_next(s7) ELSE s7,
         result |-> Append(st.result, item)]

\* for i in range(10)
RECURSIVE content_loop(_, _, _, _, _, _)
content_loop(i, st, followers, platform, today, clock) ==
    IF i = CONTENT_ITEMS THEN [value |-> st.result, rng |-> st.rng]
    ELSE Let(content_step(i, st, followers, platform, today, clock),
             LAMBDA next : content_loop(i + 1, next, followers, platform, today, clock))

\* social_scraper.generate_content_performance, lines 124-190
generate_content_performance(followers, platform, s, today, clock) ==
    content_loop(0, [rng |-> s, result |-> <<>>], followers, Lower(platform),
                 today, clock)

----------------------------------------------------------------------------
(* apify_scraper: the ScrapedData records with their generated fields *)

\* len(username) and int(md5(username).hexdigest(), 16) % 10000
Usernames ==
    [alice |-> [len |-> 5, md5_mod |-> 8300], bob |-> [len |-> 3, md5_mod |-> 2632]]

\* lines 705-716: the bounds of followers_base
followers_base_range(platform) ==
    CASE platform = "instagram" -> <<1000, 500000>>
      [] platform = "twitter" -> <<500, 200000>>
      [] platform = "facebook" -> <<2000, 1000000>>
      [] platform = "tiktok" -> <<3000, 1500000>>
      [] platform = "youtube" -> <<1000, 800000>>
      [] OTHER -> <<1000, 100000>>

\* lines 722-751: the bounds of the following factor (hundredths; <<>> when
\* following is None), of posts, of engagement and of growth (hundredths)
fallback_ranges(platform) ==
    CASE platform = "instagram" ->
            [following |-> <<10, 80>>, posts |-> <<10, 500>>,
             engagement |-> <<150, 400>>, growth |-> <<30, 120>>]
      [] platform = "twitter" ->
            [following |-> <<20, 150>>, posts |-> <<50, 5000>>,
             engagement |-> <<80, 250>>, growth |-> <<20, 80>>]
      [] platform = "facebook" ->
            [following |-> <<>>, posts |-> <<20, 300>>,
             engagement |-> <<100, 300>>, growth |-> <<10, 60>>]
      [] platform = "tiktok" ->
            [following |-> <<5, 50>>, posts |-> <<10, 200>>,
             engagement |-> <<400, 1500>>, growth |-> <<50, 300>>]
      [] platform = "youtube" ->
            [following |-> <<>>, posts |-> <<10, 500>>,
             engagement |-> <<200, 500>>, growth |-> <<20, 100>>]
      [] OTHER ->
            [following |-> <<20, 100>>, posts |-> <<20, 500>>,
             engagement |-> <<100, 300>>, growth |-> <<20, 100>>]

\* generate_fallback_data, lines 698-776: the generator is seeded with the
\* username's hash and every field is drawn from it, in the code's order
fallback_scraped_data(platform, username, today, clock) ==
    LET s0 == random_seed(Usernames[username].md5_mod)
        fr == followers_base_range(platform)
        rg == fallback_ranges(platform)
        followers == RandInt(fr[1], fr[2], s0) + Usernames[username].len * 100
        s1 == random_next(s0)
        has_following == Len(rg.following) > 0
        following ==
            IF has_following
            THEN JNum(MulDiv(followers, Uniform(rg.following[1], rg.following[2], s1), 100))
            ELSE PyNone
        s2 == IF has_following THEN random_next(s1) ELSE s1
        posts == RandInt(rg.posts[1], rg.posts[2], s2)
        s3 == random_next(s2)
        engagement == Uniform(rg.engagement[1], rg.engagement[2], s3)
        s4 == random_next(s3)
        growth == Uniform(rg.growth[1], rg.growth[2], s4)
        s5 == random_next(s4)
        likes_per_post == MulDiv(followers, engagement, 10000)
        comments_per_post == MulDiv(likes_per_post, Uniform(5, 30, s5), 100)
        s6 == random_next(s5)
        shares_per_post == MulDiv(likes_per_post, Uniform(2, 20, s6), 100)
        s7 == random_next(s6)
    IN  Let(generate_time_series(followers, s7, today), LAMBDA daily_stats :
        Let(generate_content_performance(followers, platform, daily_stats.rng,
                                         today, clock), LAMBDA content_performance :
        [value |->
            [t |-> "ScrapedData", source |-> "synthetic",
             followers |-> JNum(followers), following |-> following,
             posts |-> JNum(posts), engagement |-> engagement, growth |-> growth,
             likes |-> likes_per_post, comments |-> comments_per_post,
             shares |-> shares_per_post,
             views |-> IF platform \in {"youtube", "tiktok"}
                       THEN JNum(followers * 5) ELSE PyNone,
             dailyStats |-> JList(daily_stats.value),
             contentPerformance |-> JList(content_performance.value)],
         rng |-> content_performance.rng]))

\* lines 258-677 and 689-776: the ScrapedData of a fetched dataset with its
\* generated fields, the generator being in state s; Raised when the code
\* raises
scraped_data(platform, username, results, s, today, clock) ==
    Let(ProcessResults(platform, results), LAMBDA m :
        IF m.kind = "fallback"
        THEN fallback_scraped_data(platform, username, today, clock)
        ELSE IF m = MapException THEN [value |-> Raised, rng |-> s]
        ELSE IF m.kind = "data" /\ ~m.series
        THEN [value |->
                [t |-> "ScrapedData", source |-> "real", followers |-> m.followers,
                 following |-> m.following, posts |-> m.posts, views |-> m.views,
                 dailyStats |-> PyNone, contentPerformance |-> PyNone],
              rng |-> s]
        ELSE
            Let(generate_time_series(m.followers.n, s, today), LAMBDA daily_stats :
            Let(generate_content_performance(m.followers.n, platform, daily_stats.rng,
                                             today, clock), LAMBDA content_performance :
            IF m.kind = "exception"
            THEN [value |-> Raised, rng |-> content_performance.rng]
            ELSE [value |->
                    [t |-> "ScrapedData", source |-> "real", followers |-> m.followers,
                     following |-> m.following, posts |-> m.posts, views |-> m.views,
                     dailyStats |-> JList(daily_stats.value),
                     contentPerformance |-> JList(content_performance.value)],
                  rng |-> content_performance.rng])))

----------------------------------------------------------------------------
(* Responses *)

NoResp == [kind |-> "none"]

\* ScrapeResponse(success=..., data=..., error=...), returned with HTTP 200
ScrapeResponse(success, data, error) ==
    [kind |-> "response", http |-> 200, success |-> success, data |-> data, error |-> error]

\* raise HTTPException(status_code=..., detail=...)
HTTPException(status_code, wait_time) ==
    [kind |-> "http_error", http |-> status_code,
     detail |-> [msg |-> "Rate limit exceeded. Please try again in", wait_time |-> wait_time]]

\* the error texts of apify_scrape_social_profile
ErrNotSupported(platform) ==
    [t |-> "error", msg |-> "Platform is not supported", platform |-> platform]
ErrRateLimiting ==
    [t |-> "error", msg |-> "Rate limiting in effect. Please try again later."]
ErrStart(status) ==
    [t |-> "error", msg |-> "Failed to start actor run: HTTP", status |-> status]
ErrStatus(status) ==
    [t |-> "error", msg |-> "Failed to check run status: HTTP", status |-> status]
ErrTimedOut ==
    [t |-> "error", msg |-> "Timed out waiting for actor run to finish"]
ErrDataset(status) ==
    [t |-> "error", msg |-> "Failed to get dataset items: HTTP", status |-> status]
ErrException ==
    [t |-> "error", msg |-> "Error scraping social profile"]

\* ScrapedData built from a vendor profile (lines 290-301 and the like)
RealData(m) ==
    [t |-> "ScrapedData", source |-> "real", followers |-> m.followers,
     following |-> m.following, posts |-> m.posts, views |-> m.views,
     series |-> m.series]

\* ScrapedData of generate_fallback_data: every field is drawn from the
\* generator seeded with the username, and both series are generated
SyntheticData(platform, username) ==
    [t |-> "ScrapedData", source |-> "synthetic", platform |-> platform,
     seed |-> username, series |-> TRUE]

\* lines 689-781
generate_fallback_data(platform, username) ==
    ScrapeResponse(TRUE, SyntheticData(platform, username), PyNone)

----------------------------------------------------------------------------
(* Answers of the vendor, the inputs of the job lifecycle *)

MaxPolls == max_wait_time \div poll_interval

\* POST /v2/acts/{actor}/runs: a transport error, or a status with a body
\* that may hold a run id and may mention a rate limit
StartAnswers ==
    {[kind |-> "exception"]} \cup
    {[kind |-> "http", status |-> 201, has_id |-> TRUE, rate_text |-> FALSE],
     [kind |-> "http", status |-> 201, has_id |-> FALSE, rate_text |-> FALSE],
     [kind |-> "http", status |-> 429, has_id |-> FALSE, rate_text |-> FALSE],
     [kind |-> "http", status |-> 402, has_id |-> FALSE, rate_text |-> TRUE],
     [kind |-> "http", status |-> 401, has_id |-> FALSE, rate_text |-> FALSE]}

TerminalStatuses == {"SUCCEEDED", "FAILED", "ABORTED", "TIMED-OUT"}

\* GET /v2/actor-runs/{id}, poll after poll: n answers with a status that is
\* not terminal, then the answer "final" (a terminal status, a status other
\* than 200, or a transport error).  Every sequence of answers the loop can
\* see is one of these.
PollScripts ==
    [n : {0, MaxPolls - 1, MaxPolls},
     final : {"SUCCEEDED", "FAILED", "http_500"}]

\* the datasets of the orchestration model
ProfileItem(followers) ==
    JDict([followersCount |-> followers, followsCount |-> JNum(300), postsCount |-> JNum(45)])

DatasetInputs ==
    {JList(<<>>),
     JList(<<ProfileItem(JNum(12000))>>),
     JList(<<ProfileItem(JStr(<<"1", "2", "K">>))>>)}

\* GET /v2/actor-runs/{id}/dataset/items
DatasetAnswers ==
    {[kind |-> "exception"], [kind |-> "http", status |-> 404, results |-> PyNone]}
        \cup {[kind |-> "http", status |-> 200, results |-> d] : d \in DatasetInputs}

----------------------------------------------------------------------------
(* Request slots *)

NoCalls == [create |-> 0, status |-> 0, dataset |-> 0]
NoAnswer == [kind |-> "none"]

\* A request: where it is in its handler, its inputs, the locals of
\* apify_scrape_social_profile (current_time, time_since_last_request, the
\* sleep of line 150, waited_time, status), the vendor's answers to its
\* calls, the URL and the poll round of a request of /apify/scrape, the
\* calls it has made, and its response
IdleReq ==
    [pc |-> "idle", entry |-> "none", platform |-> "none", username |-> "none",
     current_time |-> Unset, time_since_last_request |-> Unset, slept |-> Unset,
     waited_time |-> 0, status |-> "none", session |-> "none",
     start |-> NoAnswer, dataset |-> NoAnswer,
     url |-> <<>>, alt |-> NoAnswer, attempt |-> 0,
     calls |-> NoCalls, delegated |-> NoResp, resp |-> NoResp]

\* the delegated call's failure raised as an HTTP error
SocialRelay_raising(apify_result) ==
    IF apify_result.success
    THEN ScrapeResponse(TRUE, apify_result.data, PyNone)
    ELSE HTTPException(400, 0)

\* the delegated call's failure made up for with a record of no profile
SocialRelay_simulating(apify_result) ==
    IF apify_result.success
    THEN ScrapeResponse(TRUE, apify_result.data, PyNone)
    ELSE ScrapeResponse(TRUE, SyntheticData("none", "none"), PyNone)

\* scrape_social_profile, lines 801-823: the delegated call's result is
\* passed on, success with its data, failure with its error
SocialRelay(apify_result) ==
    IF apify_result.success
    THEN ScrapeResponse(TRUE, apify_result.data, PyNone)
    ELSE ScrapeResponse(FALSE, PyNone, apify_result.error)

\* apify_scrape_social_profile returns response: the session, if one was
\* opened, is left ("async with"), and a delegating caller passes it on
Return(r, response) ==
    [r EXCEPT !.pc = "done",
              !.session = IF r.session = "open" THEN "closed" ELSE r.session,
              !.delegated = IF r.entry = "social" THEN response ELSE NoResp,
              !.resp = IF r.entry = "social" THEN SocialRelay(response) ELSE response]

\* Request slots are interchangeable: a request takes the first free one.
FirstIdle(i) == req[i].pc = "idle" /\ \A j \in Slots : j < i => req[j].pc # "idle"

\* A request between its job start and the sending of its response.  These
\* steps read and write nothing but the request's own locals, so they
\* commute with every step of another request: they are taken without
\* interleaving, and a request is observed by the others only while it
\* sleeps in the rate-limit step.
InLifecycle(r) == r.pc \in {"start", "poll", "fetch", "url_start", "url_poll", "done"}
Quiet(i) == \A j \in Slots \ {i} : ~InLifecycle(req[j])

\* f"apify_{platform}"
rate_limit_key(platform) == <<"apify_", platform>>
\* f"{request.platform}:{request.username}"
social_key(platform, username) == <<platform, ":", username>>

\* int(interval - elapsed), elapsed in ticks
WaitTime(interval, elapsed) == IntTrunc(interval * TicksPerSecond - elapsed, TicksPerSecond)

\* tiktok sent to the vendor like the other platforms
AfterRateLimit_tiktok_job(r, ledger) ==
    LET platform == Lower(r.platform)
    IN  [ledger |-> (rate_limit_key(platform) :> r.current_time) @@ ledger,
         req |-> IF platform \notin PLATFORM_CONFIGS
                 THEN Return(r, ScrapeResponse(FALSE, PyNone, ErrException))
                 ELSE [r EXCEPT !.pc = "start"]]

\* lines 152-182: the ledger write and what follows it, up to the job start
AfterRateLimit(r, ledger) ==
    LET platform == Lower(r.platform)
    IN  [ledger |-> (rate_limit_key(platform) :> r.current_time) @@ ledger,
         req |-> IF platform = "tiktok"
                 THEN Return(r, generate_fallback_data(platform, r.username))
                 ELSE IF platform \notin PLATFORM_CONFIGS
                 THEN Return(r, ScrapeResponse(FALSE, PyNone, ErrException))
                 ELSE [r EXCEPT !.pc = "start"]]

\* the check of line 124 left out
Supported_unchecked(platform) == TRUE

\* line 124: if platform not in PLATFORM_CONFIGS
Supported(platform) == platform \in PLATFORM_CONFIGS

\* the tight window never taken
TightWindow_never(time_since_last_request) == FALSE

\* line 142: if time_since_last_request < 10
TightWindow(time_since_last_request) ==
    time_since_last_request < TIGHT_WINDOW * TicksPerSecond

\* the sleep without its cap
SleepTime_uncapped(wait_time) == wait_time

\* line 150: the argument of asyncio.sleep, in seconds
SleepTime(wait_time) == Min(MAX_RATE_SLEEP, wait_time)

\* lines 117-153: apify_scrape_social_profile from its entry to its first
\* suspension (the rate-limit sleep or the job start) or its return
ApifyEntry(r0, ledger, t) ==
    LET platform == Lower(r0.platform)
        key == rate_limit_key(platform)
        time_since_last_request == t - ledger[key]
        r == [r0 EXCEPT !.current_time = t]
        rl == [r EXCEPT !.time_since_last_request = time_since_last_request]
        wait_time == WaitTime(apify_MIN_SCRAPE_INTERVAL, time_since_last_request)
    IN  IF ~Supported(platform)
        THEN [ledger |-> ledger,
              req |-> Return(r, ScrapeResponse(FALSE, PyNone, ErrNotSupported(platform)))]
        ELSE IF key \in DOMAIN ledger
                /\ time_since_last_request < apify_MIN_SCRAPE_INTERVAL * TicksPerSecond
        THEN IF TightWindow(time_since_last_request)
             THEN [ledger |-> ledger,
                   req |-> Return(rl, ScrapeResponse(FALSE, PyNone, ErrRateLimiting))]
             ELSE [ledger |-> ledger,
                   req |-> [rl EXCEPT !.pc = "rate_sleep",
                                      !.slept = SleepTime(wait_time)]]
        ELSE AfterRateLimit(r, ledger)

\* POST /apify_scraper/scrape
ApifyArrive(i, platform, username) ==
    LET r == [IdleReq EXCEPT !.entry = "apify", !.platform = platform, !.username = username]
        out == ApifyEntry(r, apify_last_scrape_times, now)
    IN  /\ FirstIdle(i)
        /\ Quiet(i)
        /\ arrivals < MaxArrivals
        /\ arrivals' = arrivals + 1
        /\ req' = [req EXCEPT ![i] = out.req]
        /\ apify_last_scrape_times' = out.ledger
        /\ UNCHANGED <<now, social_last_scrape_times, norm_vars>>

\* the platform+username entry written only for a request that the
\* delegated call does not turn away
SocialArrive_writing_after(i, platform, username) ==
    LET r == [IdleReq EXCEPT !.entry = "social", !.platform = platform, !.username = username]
        key == social_key(platform, username)
        elapsed == now - social_last_scrape_times[key]
        out == ApifyEntry(r, apify_last_scrape_times, now)
    IN  /\ FirstIdle(i)
        /\ Quiet(i)
        /\ arrivals < MaxArrivals
        /\ arrivals' = arrivals + 1
        /\ IF key \in DOMAIN social_last_scrape_times
              /\ elapsed < social_MIN_SCRAPE_INTERVAL * TicksPerSecond
           THEN /\ req' = [req EXCEPT ![i] =
                        [r EXCEPT !.pc = "done",
                                  !.resp = HTTPException(429,
                                      WaitTime(social_MIN_SCRAPE_INTERVAL, elapsed))]]
                /\ UNCHANGED <<apify_last_scrape_times, social_last_scrape_times>>
           ELSE /\ social_last_scrape_times' =
                        IF out.req.pc = "done" /\ ~out.req.resp.success
                        THEN social_last_scrape_times
                        ELSE (key :> now) @@ social_last_scrape_times
                /\ req' = [req EXCEPT ![i] = out.req]
                /\ apify_last_scrape_times' = out.ledger
        /\ UNCHANGED <<now, norm_vars>>

\* POST /social_scraper/scrape, lines 765-803: the platform+username check,
\* the ledger write, and the delegated call up to its first suspension
SocialArrive(i, platform, username) ==
    LET r == [IdleReq EXCEPT !.entry = "social", !.platform = platform, !.username = username]
        key == social_key(platform, username)
        elapsed == now - social_last_scrape_times[key]
        out == ApifyEntry(r, apify_last_scrape_times, now)
    IN  /\ FirstIdle(i)
        /\ Quiet(i)
        /\ arrivals < MaxArrivals
        /\ arrivals' = arrivals + 1
        /\ IF key \in DOMAIN social_last_scrape_times
              /\ elapsed < social_MIN_SCRAPE_INTERVAL * TicksPerSecond
           THEN /\ req' = [req EXCEPT ![i] =
                        [r EXCEPT !.pc = "done",
                                  !.resp = HTTPException(429,
                                      WaitTime(social_MIN_SCRAPE_INTERVAL, elapsed))]]
                /\ UNCHANGED <<apify_last_scrape_times, social_last_scrape_times>>
           ELSE /\ social_last_scrape_times' = (key :> now) @@ social_last_scrape_times
                /\ req' = [req EXCEPT ![i] = out.req]
                /\ apify_last_scrape_times' = out.ledger
        /\ UNCHANGED <<now, norm_vars>>

\* the earliest time at which the sleep of line 150 is over
WakeAt(r) == r.current_time + r.slept * TicksPerSecond

\* the check made again when the sleep is over: a request whose key was
\* written during its sleep is rejected
WakeUp_rechecking(i) ==
    LET key == rate_limit_key(Lower(req[i].platform))
        seen == req[i].current_time - req[i].time_since_last_request
        out == IF apify_last_scrape_times[key] # seen
               THEN [ledger |-> apify_last_scrape_times,
                     req |-> Return(req[i], ScrapeResponse(FALSE, PyNone, ErrRateLimiting))]
               ELSE AfterRateLimit(req[i], apify_last_scrape_times)
    IN  /\ req[i].pc = "rate_sleep"
        /\ Quiet(i)
        /\ now >= WakeAt(req[i])
        /\ req' = [req EXCEPT ![i] = out.req]
        /\ apify_last_scrape_times' = out.ledger
        /\ UNCHANGED <<now, social_last_scrape_times, arrivals, norm_vars>>

\* asyncio.sleep(min(5, wait_time)) is over: line 153 stores the time read
\* before the sleep
WakeUp(i) ==
    LET out == AfterRateLimit(req[i], apify_last_scrape_times)
    IN  /\ req[i].pc = "rate_sleep"
        /\ Quiet(i)
        /\ now >= WakeAt(req[i])
        /\ req' = [req EXCEPT ![i] = out.req]
        /\ apify_last_scrape_times' = out.ledger
        /\ UNCHANGED <<now, social_last_scrape_times, arrivals, norm_vars>>

\* every refusal of the vendor taken for a rate limit
VendorRateLimited_any(ans) == TRUE

\* line 194: the vendor's refusal is a rate limit
VendorRateLimited(ans) == ans.status = 429 \/ ans.rate_text

\* lines 184-205: the session is opened and the run is created
StartJobStep(r, ans) ==
    LET r1 == [r EXCEPT !.session = "open", !.calls.create = r.calls.create + 1,
                        !.start = ans]
    IN  IF ans.kind = "exception"
        THEN Return(r1, ScrapeResponse(FALSE, PyNone, ErrException))
        ELSE IF ans.status # 201
        THEN IF VendorRateLimited(ans)
             THEN Return(r1, generate_fallback_data(Lower(r.platform), r.username))
             ELSE Return(r1, ScrapeResponse(FALSE, PyNone, ErrStart(ans.status)))
        ELSE IF ~ans.has_id
        THEN Return(r1, ScrapeResponse(FALSE, PyNone, ErrException))
        ELSE [r1 EXCEPT !.pc = "poll"]

StartJob(i) ==
    /\ req[i].pc = "start"
    /\ \E ans \in StartAnswers : req' = [req EXCEPT ![i] = StartJobStep(req[i], ans)]
    /\ UNCHANGED <<now, apify_last_scrape_times, social_last_scrape_times, arrivals, norm_vars>>

\* lines 207-235: the poll loop against the vendor's answers
RECURSIVE poll_loop(_, _, _)
poll_loop(waited_time, polls, script) ==
    IF waited_time < max_wait_time
    THEN LET answer == IF polls < script.n THEN "RUNNING" ELSE script.final
         IN  IF answer \in {"http_500", "exception"} \/ answer \in TerminalStatuses
             THEN [answer |-> answer, waited_time |-> waited_time, polls |-> polls + 1]
             ELSE poll_loop(waited_time + poll_interval, polls + 1, script)
    ELSE [answer |-> "RUNNING", waited_time |-> waited_time, polls |-> polls]

\* the timeout check with > for >=
TimedOut_gt(waited_time) == waited_time > max_wait_time

\* line 238: if waited_time >= max_wait_time
TimedOut(waited_time) == waited_time >= max_wait_time

\* lines 207-243: the loop and the timeout check after it
PollStep(r, script) ==
    LET p == poll_loop(0, 0, script)
        r1 == [r EXCEPT !.waited_time = p.waited_time, !.calls.status = p.polls,
                        !.status = p.answer]
    IN  IF p.answer = "exception"
        THEN Return(r1, ScrapeResponse(FALSE, PyNone, ErrException))
        ELSE IF p.answer = "http_500"
        THEN Return(r1, ScrapeResponse(FALSE, PyNone, ErrStatus(500)))
        ELSE IF TimedOut(p.waited_time)
        THEN Return(r1, ScrapeResponse(FALSE, PyNone, ErrTimedOut))
        ELSE [r1 EXCEPT !.pc = "fetch"]

PollRun(i) ==
    /\ req[i].pc = "poll"
    /\ \E script \in PollScripts : req' = [req EXCEPT ![i] = PollStep(req[i], script)]
    /\ UNCHANGED <<now, apify_last_scrape_times, social_last_scrape_times, arrivals, norm_vars>>

\* lines 245-677: the dataset is fetched and mapped
FetchStep(r, ans) ==
    LET r1 == [r EXCEPT !.calls.dataset = r.calls.dataset + 1, !.dataset = ans]
        platform == Lower(r.platform)
        m == ProcessResults(platform, ans.results)
    IN  IF ans.kind = "exception"
        THEN Return(r1, ScrapeResponse(FALSE, PyNone, ErrException))
        ELSE IF ans.status # 200
        THEN Return(r1, ScrapeResponse(FALSE, PyNone, ErrDataset(ans.status)))
        ELSE IF m.kind = "exception"
        THEN Return(r1, ScrapeResponse(FALSE, PyNone, ErrException))
        ELSE IF m.kind = "fallback"
        THEN Return(r1, generate_fallback_data(platform, r.username))
        ELSE Return(r1, ScrapeResponse(TRUE, RealData(m), PyNone))

FetchDataset(i) ==
    /\ req[i].pc = "fetch"
    /\ \E ans \in DatasetAnswers : req' = [req EXCEPT ![i] = FetchStep(req[i], ans)]
    /\ UNCHANGED <<now, apify_last_scrape_times, social_last_scrape_times, arrivals, norm_vars>>

----------------------------------------------------------------------------
(* POST /apify/scrape: apify_integration.scrape_social_url and the job
   client scrape_profile_with_apify it calls *)

\* ScrapeUrlResponse(success=..., message=..., data=...)
ScrapeUrlResponse(success, message, data) ==
    [kind |-> "response", http |-> 200, success |-> success, message |-> message,
     data |-> data]

\* lines 442-463: the message for the text of the exception
UrlFailure(error_msg) ==
    ScrapeUrlResponse(FALSE,
        CASE error_msg = "Apify API error with both URL formats" ->
                "Error connecting to Apify API. Please check your API token."
          [] error_msg = "Timeout waiting for results from Apify actor" ->
                "Request timed out."
          [] OTHER -> "Error retrieving profile data",
        PyNone)

\* the request returns with its session as it is
UrlReturn_leaking(r, response) ==
    [r EXCEPT !.pc = "done", !.resp = response]

\* the request returns response; the session, if one was opened, is left
UrlReturn(r, response) ==
    [r EXCEPT !.pc = "done",
              !.session = IF r.session = "open" THEN "closed" ELSE r.session,
              !.resp = response]

\* the URLs of the requests: on a known domain, on a host that ends in
\* the letters of one, and on a foreign host without and with a known
\* domain in the path
UrlRequests ==
    {u \in ProfileUrls :
        u.host \in {InstagramCom, <<"b", "o">> \o XCom, <<"a", ".", "o", "r", "g">>}}

\* lines 415-428 and 262-332: the platform is detected, the token is
\* looked at and the run input is made
UrlEntry(r, token) ==
    LET platform == detect_platform_from_url(r.url)
    IN  IF platform = PyNone
        THEN UrlReturn(r, ScrapeUrlResponse(FALSE,
                "Could not detect social media platform from URL.", PyNone))
        ELSE IF ~token
        THEN UrlReturn([r EXCEPT !.platform = platform.value],
                       UrlFailure("Apify API token is not configured"))
        ELSE [r EXCEPT !.platform = platform.value, !.pc = "url_start"]

UrlArrive(i, u, token) ==
    /\ FirstIdle(i)
    /\ Quiet(i)
    /\ arrivals < MaxArrivals
    /\ arrivals' = arrivals + 1
    /\ req' = [req EXCEPT ![i] =
                UrlEntry([IdleReq EXCEPT !.entry = "url", !.url = u.url], token)]
    /\ UNCHANGED <<now, apify_last_scrape_times, social_last_scrape_times, norm_vars>>

\* POST .../runs and POST .../run-sync: a transport error, or a status
\* with a body that is no JSON, or JSON with the run id at "id", at
\* "data.id" or nowhere
CreateAnswers ==
    {[kind |-> "exception"]} \cup
    {[kind |-> "http", status |-> 201, run |-> "id"],
     [kind |-> "http", status |-> 200, run |-> "data.id"],
     [kind |-> "http", status |-> 201, run |-> "none"],
     [kind |-> "http", status |-> 200, run |-> "invalid"],
     [kind |-> "http", status |-> 500, run |-> "none"],
     [kind |-> "http", status |-> 500, run |-> "id"]}

\* every status taken for a refusal
Created_never(ans) == FALSE

\* lines 343 and 353: response.status in [200, 201]
Created(ans) == ans.status \in {200, 201}

\* a body without a run id taken for one with it
UrlRunId_unchecked(r, ans) ==
    IF ans.run = "invalid"
    THEN UrlReturn(r, UrlFailure("Invalid JSON response from Apify"))
    ELSE [r EXCEPT !.pc = "url_poll"]

\* lines 361-367 and 406-407: the run id is read from the body
UrlRunId(r, ans) ==
    IF ans.run = "invalid"
    THEN UrlReturn(r, UrlFailure("Invalid JSON response from Apify"))
    ELSE IF ans.run = "none"
    THEN UrlReturn(r, UrlFailure("No run ID returned from Apify API"))
    ELSE [r EXCEPT !.pc = "url_poll"]

\* lines 334-367: the session is opened, the run is created at the first
\* URL and, when that is refused, at the second
UrlStartStep(r, first, alt) ==
    LET r1 == [r EXCEPT !.session = "open", !.calls.create = 1, !.start = first]
        r2 == [r1 EXCEPT !.calls.create = 2, !.alt = alt]
    IN  IF first.kind = "exception"
        THEN UrlReturn(r1, UrlFailure("transport error"))
        ELSE IF Created(first) THEN UrlRunId(r1, first)
        ELSE IF alt.kind = "exception"
        THEN UrlReturn(r2, UrlFailure("transport error"))
        ELSE IF ~Created(alt)
        THEN UrlReturn(r2, UrlFailure("Apify API error with both URL formats"))
        ELSE UrlRunId(r2, alt)

UrlStartJob(i) ==
    /\ req[i].pc = "url_start"
    /\ \E first \in CreateAnswers, alt \in CreateAnswers :
            req' = [req EXCEPT ![i] = UrlStartStep(req[i], first, alt)]
    /\ UNCHANGED <<now, apify_last_scrape_times, social_last_scrape_times, arrivals, norm_vars>>

\* the body of an answer that is no text at all
EmptyText == [t |-> "blank"]

\* GET .../dataset/items: a transport error, or a status with a body
UrlPollFillers ==
    {[kind |-> "exception"],
     [kind |-> "http", status |-> 404, body |-> EmptyText],
     [kind |-> "http", status |-> 200, body |-> EmptyText],
     [kind |-> "http", status |-> 200, body |-> JList(<<>>)],
     [kind |-> "http", status |-> 200, body |-> InvalidJson]}

\* the answers to the polls of one request: n times the answer filler,
\* then a dataset with a profile
UrlPollScripts ==
    [n : {0, 1, max_attempts * PollUrls - 1, max_attempts * PollUrls},
     filler : UrlPollFillers,
     final : {[kind |-> "http", status |-> 200,
               body |-> JList(<<ProfileItem(JNum(12000))>>)]}]

\* lines 384-401: one poll.  A body that is empty or "[]" is passed over,
\* and so is what process_json_response raises (line 400).
UrlPollAnswer(ans, platform) ==
    IF ans.kind = "http" /\ ans.status = 200
          /\ ans.body # EmptyText /\ ans.body # JList(<<>>)
    THEN Let(process_json_response(ans.body, platform), LAMBDA result :
             IF result.t = "exc" THEN PyNone ELSE result)
    ELSE PyNone

\* one attempt more than the code makes
MoreAttempts_extra(attempt) == attempt <= max_attempts + 1

\* line 377: for attempt in range(1, max_attempts + 1)
MoreAttempts(attempt) == attempt <= max_attempts

\* the answer to the poll after polls polls
ScriptAnswer(script, polls) == IF polls < script.n THEN script.filler ELSE script.final

\* lines 378-401, one round: the sleep of 5 * attempt seconds, the poll of
\* the first URL and, unless that gave the profile, of the second
url_poll_round(st, script, platform) ==
    Let(UrlPollAnswer(ScriptAnswer(script, st.polls), platform), LAMBDA first :
        IF first # PyNone
        THEN [attempt |-> st.attempt, polls |-> st.polls + 1,
              slept |-> st.slept + backoff * st.attempt, result |-> first]
        ELSE [attempt |-> st.attempt, polls |-> st.polls + PollUrls,
              slept |-> st.slept + backoff * st.attempt,
              result |-> UrlPollAnswer(ScriptAnswer(script, st.polls + 1), platform)])

\* lines 377-404: the rounds; st is the round, the polls made, the
\* seconds slept and the profile, if a poll gave one
RECURSIVE url_poll_loop(_, _, _)
url_poll_loop(st, script, platform) ==
    IF ~MoreAttempts(st.attempt)
    THEN [st EXCEPT !.attempt = st.attempt - 1]
    ELSE Let(url_poll_round(st, script, platform), LAMBDA polled :
             IF polled.result # PyNone THEN polled
             ELSE url_poll_loop([polled EXCEPT !.attempt = polled.attempt + 1],
                                script, platform))

\* the platforms of the URLs that are asked for
UrlPlatforms ==
    {detect_platform_from_url(u.url).value :
        u \in {v \in UrlRequests : detect_platform_from_url(v.url) # PyNone}}

\* the loop from its first round, for every script of answers and every
\* platform
url_polls ==
    {[script |-> script, platform |-> platform,
      polled |-> url_poll_loop([attempt |-> 1, polls |-> 0, slept |-> 0,
                                result |-> PyNone], script, platform)] :
        script \in UrlPollScripts, platform \in UrlPlatforms}

\* lines 369-404 and 430-440: the polls, and the profile or the timeout
UrlPollStep(r, script) ==
    Let((CHOOSE x \in url_polls : x.script = script /\ x.platform = r.platform).polled,
        LAMBDA p :
            LET r1 == [r EXCEPT !.attempt = p.attempt, !.calls.dataset = p.polls,
                                !.waited_time = p.slept,
                                !.dataset = ScriptAnswer(script, p.polls - 1)]
            IN  IF p.result = PyNone
                THEN UrlReturn(r1, UrlFailure("Timeout waiting for results from Apify actor"))
                ELSE UrlReturn(r1, ScrapeUrlResponse(TRUE,
                        "Successfully retrieved profile data.", p.result)))

UrlPollRun(i) ==
    /\ req[i].pc = "url_poll"
    /\ \E script \in UrlPollScripts :
            req' = [req EXCEPT ![i] = UrlPollStep(req[i], script)]
    /\ UNCHANGED <<now, apify_last_scrape_times, social_last_scrape_times, arrivals, norm_vars>>

\* the response has been sent; the slot takes the next request
Reset(i) ==
    /\ req[i].pc = "done"
    /\ req' = [req EXCEPT ![i] = IdleReq]
    /\ UNCHANGED <<now, apify_last_scrape_times, social_last_scrape_times, arrivals, norm_vars>>

\* time passes
Advance ==
    /\ \A j \in Slots : ~InLifecycle(req[j])
    /\ \E t \in Instants : t > now /\ now' = t
    /\ UNCHANGED <<apify_last_scrape_times, social_last_scrape_times, req, arrivals, norm_vars>>

----------------------------------------------------------------------------
(* The normalizers, called one after the other on vendor payloads.  norm_in
   and norm_out are the last call and what it gave; norm_log holds one
   earlier call that is remembered, with its followers, following and
   posts. *)

NoCall == [fn |-> "none"]
NoResult == [raw_data |-> PyNone, result |-> PyNone]

\* a profile object with the count keys of every platform, and a tweet
\* whose user holds them
RichProfile(count) ==
    JDict([followersCount |-> count, followsCount |-> JNum(300), postsCount |-> JNum(45),
           followers |-> count, subscriberCount |-> count, videoCount |-> JNum(45),
           user |-> JDict([followers_count |-> count, following_count |-> JNum(300),
                           statuses_count |-> JNum(45)])])

SmallProfile(count) == JDict([followersCount |-> count])

\* response bodies of the vendor, by shape
NormPayloads ==
    {InvalidJson, PyNone, JNum(5),
     JList(<<>>),
     JList(<<RichProfile(JNum(12000)), SmallProfile(JNum(7))>>),
     JDict([data |-> RichProfile(JStr(<<"1", ".", "5", "M">>)),
            items |-> JList(<<SmallProfile(JNum(7))>>)]),
     JDict([data |-> JList(<<SmallProfile(JNum(0)), SmallProfile(JNum(7))>>)]),
     JDict([data |-> JList(<<>>)]),
     JDict([data |-> PyNone]),
     JDict([items |-> JList(<<SmallProfile(JNum(7)), SmallProfile(JNum(8))>>)]),
     JDict([items |-> JList(<<>>)]),
     JDict([items |-> JNum(3), followersCount |-> JNum(9)]),
     SmallProfile(JNum(9))}

\* the calls of process_json_response: every shape for one platform, one
\* shape for the others
IntegrationInputs ==
    {<<"instagram", payload>> : payload \in NormPayloads}
        \cup {<<platform, JList(<<RichProfile(JNum(12000)), SmallProfile(JNum(7))>>)>> :
                    platform \in {"facebook", "linkedin"}}

ScraperPlatforms == {"instagram", "twitter", "facebook", "youtube"}

\* a page whose first count key holds 0 and a later one a count, and a
\* channel with 0 views under the first key and a count under a later one
ZeroFirstPage == JDict([likesCount |-> JNum(0), followersCount |-> JNum(12000)])
ZeroFirstChannel ==
    JDict([subscriberCount |-> JNum(12000), viewCount |-> JNum(0), views |-> JNum(7)])

\* the datasets of a finished run, with the platform and the user the run
\* was for: a profile with followers and one without for every platform, a
\* count that is no number, no profile at all, and profiles with a 0
\* under the first key of a metric
ScraperInputs ==
    {<<platform, "alice", JList(<<RichProfile(JNum(count))>>)>> :
            platform \in ScraperPlatforms, count \in {0, 12000}}
        \cup {<<"instagram", "alice", JList(<<RichProfile(JStr(<<"1", "2", "K">>))>>)>>,
               <<"instagram", "alice", JList(<<>>)>>,
               <<"facebook", "bob", JList(<<>>)>>,
               <<"facebook", "alice", JList(<<ZeroFirstPage>>)>>,
               <<"youtube", "alice", JList(<<ZeroFirstChannel>>)>>}

\* datetime.now() as a day number and time.time() in seconds
Today == now \div (86400 * TicksPerSecond)
Clock == now \div TicksPerSecond

\* followers, following and posts of a normalizer's result
Counts(result) ==
    IF result.t \in {"profile", "ScrapedData"}
    THEN [followers |-> result.followers, following |-> result.following,
          posts |-> result.posts]
    ELSE [raised |-> TRUE]

\* the call is remembered, or the remembered one is kept
Remember(call, result) ==
    \/ norm_log' = {[call |-> call, counts |-> Counts(result)]}
    \/ norm_log' = norm_log

\* apify_integration.process_json_response on a response body
IntegrationNormalize(platform, payload) ==
    LET call == [fn |-> "process_json_response", platform |-> platform,
                 username |-> "", payload |-> payload]
    IN  \E result \in {process_json_response(payload, platform)} :
            /\ norm_in' = call
            /\ norm_out' = [raw_data |-> first_item(payload), result |-> result]
            /\ Remember(call, result)
            /\ UNCHANGED <<rng, orch_vars>>

\* apify_scraper, lines 258-677: the mapping of a fetched dataset
ScraperNormalize(platform, username, results) ==
    LET call == [fn |-> "apify_scrape_social_profile", platform |-> platform,
                 username |-> username, payload |-> results]
    IN  \E out \in {scraped_data(platform, username, results, rng, Today, Clock)} :
            /\ norm_in' = call
            /\ norm_out' = [raw_data |-> PyNone, result |-> out.value]
            /\ rng' = out.rng
            /\ Remember(call, out.value)
            /\ UNCHANGED orch_vars

----------------------------------------------------------------------------
(* The helpers of the scrapers, applied one after the other to inputs of
   their own: norm_in is the call and norm_out.result what it gave *)

\* the follower counts the generators are called with
FollowerCounts == {0, 1, 12000, 400000000}

\* the days on which the generators run: the 30 days before them cross a
\* year, the end of a February of 28 days and the end of one of 29
GeneratorDays == {0, 75, 800}

\* social_scraper.generate_time_series(followers)
SeriesGenerate(followers) ==
    \E out \in {generate_time_series(followers, rng, Today)} :
        /\ norm_in' = [fn |-> "generate_time_series", followers |-> followers]
        /\ norm_out' = [raw_data |-> PyNone, result |-> JList(out.value)]
        /\ rng' = out.rng
        /\ UNCHANGED <<norm_log, orch_vars>>

\* the platform strings the content generator is called with
GeneratorPlatforms ==
    {"instagram", "Instagram", "twitter", "facebook", "tiktok", "youtube", "linkedin",
     "myspace"}

\* social_scraper.generate_content_performance(followers, platform)
ContentGenerate(followers, platform) ==
    \E out \in {generate_content_performance(followers, platform, rng, Today, Clock)} :
        /\ norm_in' = [fn |-> "generate_content_performance", followers |-> followers,
                       platform |-> platform]
        /\ norm_out' = [raw_data |-> PyNone, result |-> JList(out.value)]
        /\ rng' = out.rng
        /\ UNCHANGED <<norm_log, orch_vars>>

\* the texts the parsers are called with
CountTexts ==
    {<<>>, <<"1", "2">>, <<"1", ".", "5", "M">>, <<"1", "0", "K">>,
     <<"1", ",", "2", "3", "4">>, <<" ", "7", " ">>, <<"2", "b">>,
     <<"n", "/", "a">>, <<"k">>, <<"a", "b", "c">>, <<"1", "2", " ", "k", "m">>,
     <<"1", ".", "2", ".", "3">>}

\* parse_count(text) of social_scraper or of apify_integration
ParseCount(module, text) ==
    /\ norm_in' = [fn |-> "parse_count", module |-> module, text |-> text]
    /\ norm_out' = [raw_data |-> PyNone,
                    result |-> IF module = "social_scraper"
                               THEN social_parse_count(JStr(text))
                               ELSE parse_count(JStr(text))]
    /\ UNCHANGED <<rng, norm_log, orch_vars>>

\* detect_platform_from_url(url)
DetectPlatform(u) ==
    /\ norm_in' = [fn |-> "detect_platform_from_url", url |-> u.url, host |-> u.host]
    /\ norm_out' = [raw_data |-> PyNone, result |-> detect_platform_from_url(u.url)]
    /\ UNCHANGED <<rng, norm_log, orch_vars>>

InitOrch ==
    /\ now = 0
    /\ apify_last_scrape_times = <<>>
    /\ social_last_scrape_times = <<>>
    /\ req = [i \in Slots |-> IdleReq]
    /\ arrivals = 0

InitNorm ==
    /\ rng = 0
    /\ norm_in = NoCall
    /\ norm_out = NoResult
    /\ norm_log = {}

Init == InitOrch /\ InitNorm

Next ==
    \/ \E i \in Slots, pu \in RequestInputs : ApifyArrive(i, pu[1], pu[2])
    \/ \E i \in Slots, pu \in RequestInputs : SocialArrive(i, pu[1], pu[2])
    \/ \E i \in Slots : WakeUp(i)
    \/ \E i \in Slots : StartJob(i)
    \/ \E i \in Slots : PollRun(i)
    \/ \E i \in Slots : FetchDataset(i)
    \/ \E i \in Slots : Reset(i)
    \/ Advance

Spec == Init /\ [][Next]_vars

\* the generator starts in any state
InitN ==
    /\ InitOrch
    /\ rng \in RngStates
    /\ norm_in = NoCall
    /\ norm_out = NoResult
    /\ norm_log = {}

NextN ==
    \/ \E c \in IntegrationInputs : IntegrationNormalize(c[1], c[2])
    \/ \E c \in ScraperInputs : ScraperNormalize(c[1], c[2], c[3])

SpecNorm == InitN /\ [][NextN]_vars

\* the eight generated numbers of a synthetic record
SyntheticFields(result) ==
    IF result.t = "ScrapedData" /\ result.source = "synthetic"
    THEN [followers |-> result.followers, following |-> result.following,
          posts |-> result.posts, engagement |-> result.engagement,
          growth |-> result.growth, likes |-> result.likes,
          comments |-> result.comments, shares |-> result.shares]
    ELSE [synthetic |-> FALSE]

\* the call is remembered with its generated numbers, or the remembered
\* one is kept, with a note of whether another call has been made since
RememberFields(call, result) ==
    \/ norm_log' = {[call |-> call, fields |-> SyntheticFields(result), between |-> FALSE]}
    \/ norm_log' = {[e EXCEPT !.between = e.between \/ e.call # call] : e \in norm_log}

\* generate_fallback_data(platform, username), as lines 158, 196 and 266
\* call it
FallbackGenerate(platform, username) ==
    LET call == [fn |-> "generate_fallback_data", platform |-> platform,
                 username |-> username]
    IN  \E out \in {fallback_scraped_data(platform, username, Today, Clock)} :
            /\ norm_in' = call
            /\ norm_out' = [raw_data |-> PyNone, result |-> out.value]
            /\ rng' = out.rng
            /\ RememberFields(call, out.value)
            /\ UNCHANGED orch_vars

\* a request with a fetched dataset: the mapping of lines 258-677 draws
\* from the generator for the series of a real profile
DatasetMapped(platform, username, results) ==
    LET call == [fn |-> "apify_scrape_social_profile", platform |-> platform,
                 username |-> username]
    IN  \E out \in {scraped_data(platform, username, results, rng, Today, Clock)} :
            /\ norm_in' = call
            /\ norm_out' = [raw_data |-> PyNone, result |-> out.value]
            /\ rng' = out.rng
            /\ RememberFields(call, out.value)
            /\ UNCHANGED orch_vars

\* the datasets of the requests between two synthetic generations
RealDatasets ==
    {<<platform, "alice", JList(<<RichProfile(JNum(12000))>>)>> :
            platform \in {"instagram", "youtube"}}

NextSynth ==
    \/ \E platform \in PLATFORM_CONFIGS, username \in DOMAIN Usernames :
            FallbackGenerate(platform, username)
    \/ \E c \in RealDatasets : DatasetMapped(c[1], c[2], c[3])

\* the synthetic generator among requests that draw from the shared
\* random generator
SpecSynth == InitN /\ [][NextSynth]_vars

\* the platform strings of the requests: the five with a vendor
\* configuration, one of them in another case, and strings without one
PlatformStrings ==
    {"instagram", "Instagram", "twitter", "facebook", "youtube", "tiktok",
     "linkedin", "x", "X", "myspace"}

NextPlatforms ==
    \/ \E i \in Slots, platform \in PlatformStrings : ApifyArrive(i, platform, "alice")
    \/ \E i \in Slots, platform \in PlatformStrings : SocialArrive(i, platform, "alice")
    \/ \E i \in Slots : StartJob(i)
    \/ \E i \in Slots : PollRun(i)
    \/ \E i \in Slots : FetchDataset(i)
    \/ \E i \in Slots : Reset(i)

\* the two scrape endpoints, for requests with every platform string that
\* arrive at one instant
SpecPlatforms == Init /\ [][NextPlatforms]_vars

\* the job clients of the three endpoints, for requests that arrive at one
\* instant
NextJobs ==
    \/ \E i \in Slots, pu \in RequestInputs : ApifyArrive(i, pu[1], pu[2])
    \/ \E i \in Slots, pu \in RequestInputs : SocialArrive(i, pu[1], pu[2])
    \/ \E i \in Slots, u \in UrlRequests, token \in BOOLEAN : UrlArrive(i, u, token)
    \/ \E i \in Slots : StartJob(i)
    \/ \E i \in Slots : PollRun(i)
    \/ \E i \in Slots : FetchDataset(i)
    \/ \E i \in Slots : UrlStartJob(i)
    \/ \E i \in Slots : UrlPollRun(i)
    \/ \E i \in Slots : Reset(i)

SpecJobs == Init /\ [][NextJobs]_vars

\* a step of a job client: an awaited call to the vendor is answered, or
\* breaks, and the coroutine runs on to its next await or its return
JobStep ==
    \E i \in Slots :
        StartJob(i) \/ PollRun(i) \/ FetchDataset(i) \/ UrlStartJob(i) \/ UrlPollRun(i)

\* the event loop resumes a coroutine whose awaited call is over
SpecJobsFair == Init /\ [][NextJobs]_vars /\ WF_vars(JobStep)

\* the helpers are called on any day, the generator being in any state
InitFn ==
    /\ now \in {day * 86400 * TicksPerSecond : day \in GeneratorDays}
    /\ apify_last_scrape_times = <<>>
    /\ social_last_scrape_times = <<>>
    /\ req = [i \in Slots |-> IdleReq]
    /\ arrivals = 0
    /\ rng \in RngStates
    /\ norm_in = NoCall
    /\ norm_out = NoResult
    /\ norm_log = {}

NextFn ==
    \/ \E followers \in FollowerCounts : SeriesGenerate(followers)
    \/ \E followers \in FollowerCounts, platform \in GeneratorPlatforms :
            ContentGenerate(followers, platform)
    \/ \E module \in {"social_scraper", "apify_integration"}, text \in CountTexts :
            ParseCount(module, text)
    \/ \E u \in ProfileUrls : DetectPlatform(u)

SpecFn == InitFn /\ [][NextFn]_vars

----------------------------------------------------------------------------
(* The outcome of a request, read off its answered slot *)

Done(i) == req[i].pc = "done"
Answered(i) == Done(i) /\ req[i].resp.kind = "response"
Succeeded(i) == Answered(i) /\ req[i].resp.success /\ req[i].resp.data # PyNone
Failed(i) == Answered(i) /\ ~req[i].resp.success /\ req[i].resp.data = PyNone

\* the poll budget was used up without a terminal status
JobTimeout(r) == r.calls.status = MaxPolls /\ r.status = "RUNNING"
\* the vendor reported the job as failed
JobFailed(r) == r.status = "FAILED"
\* the dataset was fetched and holds nothing
EmptyResult(r) ==
    r.dataset.kind = "http" /\ r.dataset.status = 200 /\ r.dataset.results = JList(<<>>)
\* the vendor refused the job start for want of credentials
VendorAuthError(r) == r.start.kind = "http" /\ r.start.status = 401
\* the vendor refused the job start with a rate limit
StartRateLimited(r) ==
    r.start.kind = "http" /\ r.start.status # 201
        /\ (r.start.status = 429 \/ r.start.rate_text)
\* the vendor refused the job start otherwise, or the start broke
StartFailed(r) ==
    \/ r.start.kind = "exception"
    \/ r.start.kind = "http" /\ r.start.status # 201
           /\ ~(r.start.status = 429 \/ r.start.rate_text)
    \/ r.start.kind = "http" /\ r.start.status = 201 /\ ~r.start.has_id
\* a status check was refused or broke
StatusCheckFailed(r) == r.status \in {"http_500", "exception"}
\* the dataset fetch was refused or broke, or its mapping raised
DatasetFailed(r) ==
    \/ r.dataset.kind = "exception"
    \/ r.dataset.kind = "http" /\ r.dataset.status # 200
    \/ r.dataset.kind = "http" /\ r.dataset.status = 200
           /\ ProcessResults(Lower(r.platform), r.dataset.results).kind = "exception"
\* the platform is none of the supported ones
Unsupported(r) == Lower(r.platform) \notin PLATFORM_CONFIGS
\* the request came less than 10 seconds after the platform's last one
InTightWindow(r) ==
    r.time_since_last_request # Unset
        /\ r.time_since_last_request < TIGHT_WINDOW * TicksPerSecond

----------------------------------------------------------------------------
(* Claims *)

C3_UnsupportedPlatform ==
    \A i \in Slots :
        Done(i) /\ Unsupported(req[i]) =>
            /\ req[i].calls = NoCalls
            /\ req[i].session = "none"
            /\ req[i].entry = "apify" => Answered(i)
            /\ Answered(i) =>
                    /\ Failed(i)
                    /\ req[i].resp.error = ErrNotSupported(Lower(req[i].platform))

C3_Witness ==
    \E i \in Slots :
        /\ Answered(i) /\ req[i].entry = "apify" /\ req[i].platform = "myspace"
        /\ req[i].resp.error = ErrNotSupported("myspace")

\* a request arrives in slot i in this step
Arrives(i) == req[i].pc = "idle" /\ req'[i].pc # "idle"
\* the request came at least 10 and less than 30 seconds after the
\* platform's last one
InWaitWindow(r) ==
    /\ r.time_since_last_request # Unset
    /\ r.time_since_last_request >= TIGHT_WINDOW * TicksPerSecond
    /\ r.time_since_last_request < apify_MIN_SCRAPE_INTERVAL * TicksPerSecond

\* C4 as stated: the arrival of a request for an unsupported platform, on
\* either entry point, leaves both rate-limit ledgers as they were.
C4_UnsupportedLeavesLedgers ==
    [][\A i \in Slots :
          Arrives(i) /\ Unsupported(req'[i])
              => /\ apify_last_scrape_times' = apify_last_scrape_times
                 /\ social_last_scrape_times' = social_last_scrape_times]_vars

\* C5: a request that comes less than 10 seconds after the last recorded
\* attempt for its platform is answered at once, with success=False and the
\* rate-limiting error, which is not the generic error; it neither sleeps
\* nor calls the vendor.
C5_TightWindowRejected ==
    \A i \in Slots :
        InTightWindow(req[i]) =>
            /\ Done(i) /\ Failed(i)
            /\ req[i].resp.error = ErrRateLimiting
            /\ req[i].resp.error # ErrException
            /\ req[i].current_time = now
            /\ req[i].slept = Unset
            /\ req[i].calls = NoCalls /\ req[i].session = "none"

C5_Witness ==
    \E i \in Slots :
        /\ Done(i) /\ InTightWindow(req[i])
        /\ req[i].username = "bob" /\ req[i].resp.error = ErrRateLimiting

\* C6: a request that comes at least 10 and less than 30 seconds after the
\* last recorded attempt for its platform sleeps, for at most 5 seconds, and
\* no other request sleeps; when the sleep is over the request records its
\* attempt and goes on to the job start (for tiktok, to the synthetic
\* answer) without a second sleep or a rejection.
C6_BoundedWait ==
    /\ [](\A i \in Slots :
            /\ req[i].pc = "rate_sleep" => InWaitWindow(req[i])
            /\ InWaitWindow(req[i]) =>
                    /\ req[i].slept >= 0 /\ req[i].slept <= MAX_RATE_SLEEP
                    /\ Done(i) => /\ Answered(i)
                                  /\ req[i].resp.error # ErrRateLimiting
                                  /\ \/ req[i].calls.create = 1
                                     \/ Lower(req[i].platform) = "tiktok" /\ Succeeded(i))
    /\ [][\A i \in Slots :
            /\ req'[i].pc = "rate_sleep" => req[i].pc \in {"idle", "rate_sleep"}
            /\ req[i].pc = "rate_sleep" /\ req'[i] # req[i] =>
                    /\ req'[i].pc \in {"start", "done"}
                    /\ now >= req[i].current_time
                    /\ apify_last_scrape_times'[rate_limit_key(Lower(req[i].platform))]
                            = req[i].current_time]_vars

C6_Witness ==
    \E i \in Slots :
        /\ Done(i) /\ InWaitWindow(req[i])
        /\ req[i].slept = MAX_RATE_SLEEP /\ req[i].calls.create = 1

\* C7 as stated: on both entry points every outcome is a returned response
\* (HTTP 200); no HTTP error status is raised.
C7_NoTransportError ==
    \A i \in Slots : Done(i) => Answered(i) /\ req[i].resp.http = 200

\* C7 amended: /apify_scraper/scrape always returns a response (HTTP 200);
\* /social_scraper/scrape raises HTTP 429, and nothing else, exactly for a
\* request whose platform and username were recorded less than 600 seconds
\* before, and such a request calls nothing.
C7_Only429OnSocial ==
    /\ [](\A i \in Slots :
            Done(i) =>
                /\ req[i].entry = "apify" => Answered(i) /\ req[i].resp.http = 200
                /\ Answered(i) \/ /\ req[i].entry = "social"
                                  /\ req[i].resp.kind = "http_error"
                                  /\ req[i].resp.http = 429
                                  /\ req[i].calls = NoCalls
                                  /\ req[i].current_time = Unset)
    /\ [][\A i \in Slots :
            Arrives(i) /\ req'[i].entry = "social" =>
                LET key == social_key(req'[i].platform, req'[i].username)
                IN  req'[i].resp.kind = "http_error" <=>
                        /\ key \in DOMAIN social_last_scrape_times
                        /\ now - social_last_scrape_times[key]
                               < social_MIN_SCRAPE_INTERVAL * TicksPerSecond]_vars

C7_Witness ==
    \E i \in Slots :
        /\ Done(i) /\ req[i].entry = "social"
        /\ req[i].resp.kind = "http_error" /\ req[i].resp.http = 429

----------------------------------------------------------------------------
(* Claims about the normalizers *)

NoItems == Exception("No data items found in Apify response")
IsProfile(v) == v.t = "profile"
IsScrapedData(v) == v.t = "ScrapedData"

\* C8: process_json_response takes the first element of a bare list; for a
\* dict with a "data" key that object when it is an object and its first
\* element when it is a list; for a dict with an "items" list its first
\* element; any other dict itself; and signals that there are no items, and
\* gives no profile, for an empty list, "data" or "items".  The item taken
\* is the one the profile is made from.
C8_ItemByShape ==
    norm_in.fn = "process_json_response" =>
        LET d == norm_in.payload
            item == norm_out.raw_data
            data == d.d["data"]
            items == d.d["items"]
        IN  /\ IsList(d) =>
                    item = IF Len(d.items) > 0 THEN d.items[1] ELSE NoItems
            /\ IsDict(d) /\ HasKey(d, "data") =>
                    /\ IsDict(data) => item = data
                    /\ IsList(data) =>
                            item = IF Len(data.items) > 0 THEN data.items[1] ELSE NoItems
            /\ IsDict(d) /\ ~HasKey(d, "data") /\ HasKey(d, "items") /\ IsList(items) =>
                    item = IF Len(items.items) > 0 THEN items.items[1] ELSE NoItems
            /\ IsDict(d) /\ ~HasKey(d, "data") /\ ~HasKey(d, "items") => item = d
            /\ item = NoItems => norm_out.result = NoItems
            /\ IsDict(item) /\ norm_in.platform = "instagram" =>
                    /\ IsProfile(norm_out.result)
                    /\ norm_out.result.followers
                            = parse_count(Get(item, "followersCount", JNum(0)))

C8_Witness ==
    /\ norm_in.fn = "process_json_response"
    /\ norm_in.payload = JDict([data |-> JList(<<SmallProfile(JNum(0)), SmallProfile(JNum(7))>>)])
    /\ norm_out.raw_data = SmallProfile(JNum(0))
    /\ IsProfile(norm_out.result)

\* the two generated fields of a normalized record
DailyStats(result) ==
    IF IsProfile(result) THEN result.daily_stats ELSE result.dailyStats
ContentPerformance(result) ==
    IF IsProfile(result) THEN result.content_performance ELSE result.contentPerformance
Populated(result) ==
    /\ IsList(DailyStats(result)) /\ Len(DailyStats(result).items) = 30
    /\ IsList(ContentPerformance(result))
    /\ Len(ContentPerformance(result).items) > 0
    /\ Len(ContentPerformance(result).items) <= 10
Unpopulated(result) ==
    DailyStats(result) = PyNone /\ ContentPerformance(result) = PyNone

\* C9 as stated: every record a normalizer gives carries a daily_stats of
\* 30 entries and a content_performance of at most 10, whatever the
\* follower count.
C9_AlwaysPopulated ==
    IsProfile(norm_out.result) \/ IsScrapedData(norm_out.result)
        => Populated(norm_out.result)

\* C9 amended: a record of apify_scrape_social_profile carries a daily_stats
\* of 30 entries and a content_performance of 10 when its follower count is
\* positive, when the platform is twitter, and when it is the synthetic
\* record; for the other platforms with a follower count of 0 both are
\* null; a record of process_apify_data has both null.
C9_PopulatedWhenFollowers ==
    LET result == norm_out.result
    IN  /\ IsProfile(result) => Unpopulated(result)
        /\ IsScrapedData(result) =>
                IF \/ result.source = "synthetic"
                   \/ norm_in.platform = "twitter"
                   \/ result.followers.n > 0
                THEN Populated(result) /\ Len(ContentPerformance(result).items) = 10
                ELSE Unpopulated(result)

C9_Witness ==
    /\ IsScrapedData(norm_out.result)
    /\ norm_out.result.source = "real"
    /\ norm_in.platform = "youtube"
    /\ norm_out.result.followers = JNum(12000)
    /\ Populated(norm_out.result)

\* C10: a call of a normalizer on the platform and payload of a remembered
\* earlier call gives the followers, following and posts that call gave,
\* whatever was normalized in between and whatever state that left the
\* generator in.
C10_SameCounts ==
    \A e \in norm_log :
        e.call = norm_in => e.counts = Counts(norm_out.result)

C10_Witness ==
    \E e \in norm_log :
        /\ e.call = norm_in
        /\ norm_in.fn = "apify_scrape_social_profile"
        /\ norm_in.platform = "facebook"
        /\ e.counts.followers = JNum(12000)
        /\ Populated(norm_out.result)

----------------------------------------------------------------------------
(* C11: the daily series *)

\* the days of the months of year y
DaysInMonth(y, m) ==
    IF m = 2
    THEN IF y % 4 = 0 /\ (y % 100 # 0 \/ y % 400 = 0) THEN 29 ELSE 28
    ELSE IF m \in {4, 6, 9, 11} THEN 30 ELSE 31

\* the date after date, by the calendar
NextDate(date) ==
    IF date[3] < DaysInMonth(date[1], date[2]) THEN <<date[1], date[2], date[3] + 1>>
    ELSE IF date[2] < 12 THEN <<date[1], date[2] + 1, 1>>
    ELSE <<date[1] + 1, 1, 1>>

\* the texts of two dates compare as their years, months and days do
DateBefore(a, b) ==
    \/ a[1] < b[1]
    \/ a[1] = b[1] /\ a[2] < b[2]
    \/ a[1] = b[1] /\ a[2] = b[2] /\ a[3] < b[3]

\* the dates on which the generators run in the model
GeneratorDates == {<<1970, 1, 1>>, <<1970, 3, 17>>, <<1972, 3, 11>>}

SeriesCalled == norm_in.fn = "generate_time_series"

\* C11: for every non-negative follower count generate_time_series gives
\* exactly 30 entries, their dates strictly ascending, each the day after
\* the one before it, the last one today's, and every entry's followers
\* at least 0.
C11_SeriesShape ==
    SeriesCalled =>
        LET entries == norm_out.result.items
        IN  /\ Len(entries) = 30
            /\ \A k \in 1..(Len(entries) - 1) :
                    /\ DateBefore(entries[k].date, entries[k + 1].date)
                    /\ entries[k + 1].date = NextDate(entries[k].date)
            /\ entries[Len(entries)].date \in GeneratorDates
            /\ entries[Len(entries)].date = strftime(Today)
            /\ \A k \in 1..Len(entries) : entries[k].followers >= 0

\* a series for 12000 followers that ends on 1972-03-11 and so holds the
\* 29th of February
C11_Witness ==
    /\ SeriesCalled
    /\ norm_in.followers = 12000
    /\ norm_out.result.items[30].date = <<1972, 3, 11>>
    /\ \E k \in 1..30 : norm_out.result.items[k].date = <<1972, 2, 29>>
    /\ norm_out.result.items[1].followers < 12000

----------------------------------------------------------------------------
(* C12: the content items *)

\* the content types of a platform, by its name in lower case
AllowedTypes(platform) ==
    CASE platform \in {"instagram", "Instagram"} -> {"post", "reel", "story"}
      [] platform = "twitter" -> {"post"}
      [] platform = "facebook" -> {"post", "video"}
      [] platform = "tiktok" -> {"video"}
      [] platform = "youtube" -> {"video"}
      [] platform = "linkedin" -> {"post", "article"}
      [] OTHER -> {"post"}

ContentCalled == norm_in.fn = "generate_content_performance"

\* C12: for every platform string generate_content_performance gives at
\* most 10 items, and the type of every item is one of the platform's
\* content types (post alone for a platform that is not in the table).
C12_ContentShape ==
    ContentCalled =>
        /\ Len(norm_out.result.items) <= 10
        /\ \A k \in 1..Len(norm_out.result.items) :
                norm_out.result.items[k].type \in AllowedTypes(norm_in.platform)

\* ten items for linkedin, an article among them
C12_Witness ==
    /\ ContentCalled
    /\ norm_in.platform = "linkedin"
    /\ Len(norm_out.result.items) = 10
    /\ \E k \in 1..10 : norm_out.result.items[k].type = "article"

----------------------------------------------------------------------------
(* C13: the count parser *)

ParseCalled == norm_in.fn = "parse_count"

\* C13: parse_count gives null for the empty text and for every text no
\* number can be read from, and raises for no text.
C13_NullNeverRaises ==
    ParseCalled =>
        /\ norm_out.result.t \in {"null", "num"}
        /\ (\A k \in 1..Len(norm_in.text) : norm_in.text[k] \notin Digits)
                => norm_out.result = PyNone

----------------------------------------------------------------------------
(* C14: the platform of a URL *)

DetectCalled == norm_in.fn = "detect_platform_from_url"

\* the host is the domain or lies below it
OnDomain(host, domain) ==
    \/ lower(host) = domain
    \/ /\ Len(host) > Len(domain)
       /\ SubSeq(lower(host), Len(host) - Len(domain), Len(host)) = <<".">> \o domain

\* the platform of a host, in the order of the known domains
PlatformOfHost(host) ==
    IF OnDomain(host, InstagramCom) THEN Platform("instagram")
    ELSE IF OnDomain(host, TwitterCom) \/ OnDomain(host, XCom) THEN Platform("twitter")
    ELSE IF OnDomain(host, FacebookCom) \/ OnDomain(host, FbCom) THEN Platform("facebook")
    ELSE IF OnDomain(host, TiktokCom) THEN Platform("tiktok")
    ELSE IF OnDomain(host, YoutubeCom) \/ OnDomain(host, YoutuBe) THEN Platform("youtube")
    ELSE IF OnDomain(host, LinkedinCom) THEN Platform("linkedin")
    ELSE PyNone

\* C14: detect_platform gives a platform only for a URL on one of the
\* known domains; a URL on another domain gives None, also when its host
\* holds a known domain as a part of its text, as a host ending in x.com
\* does.
C14_OnlyKnownDomains ==
    DetectCalled =>
        (norm_out.result # PyNone => PlatformOfHost(norm_in.host) # PyNone)

----------------------------------------------------------------------------
(* Claims about the job clients *)

\* the request of slot i came in at /apify/scrape
ByUrl(i) == req[i].entry = "url"
\* it came in at /apify_scraper/scrape or /social_scraper/scrape
ByScraper(i) == req[i].entry \in {"apify", "social"}
\* its job client is polling
Polling(i) == req[i].pc \in {"poll", "url_poll"}
\* the polls of scrape_profile_with_apify were used up
UrlTimeout(r) == r.attempt = 15 /\ r.resp = UrlFailure("Timeout waiting for results from Apify actor")

\* C15: a request that has started a vendor job ends, whatever the vendor
\* answers: apify_scrape_social_profile asks for the status at most 60
\* times, within a budget of 300 seconds, and scrape_profile_with_apify
\* polls in at most 15 rounds with waits of 5 * attempt seconds; a request
\* whose polls are used up is answered and has made no poll beyond them.
C15_PollsBounded ==
    /\ [](\A i \in Slots :
            /\ ByScraper(i) =>
                    /\ req[i].calls.status <= 60
                    /\ req[i].waited_time <= 300
                    /\ JobTimeout(req[i]) =>
                            Done(i) /\ req[i].calls.status = 60 /\ req[i].calls.dataset = 0
            /\ ByUrl(i) =>
                    /\ req[i].attempt <= 15
                    /\ req[i].calls.dataset <= 2 * req[i].attempt
                    /\ req[i].waited_time
                            = (5 * req[i].attempt * (req[i].attempt + 1)) \div 2
                    /\ req[i].attempt = 15 /\ ~req[i].resp.success =>
                            Done(i) /\ req[i].calls.dataset = 30)
    /\ \A i \in Slots : Polling(i) ~> Done(i)

\* scrape_profile_with_apify has used up its polls
C15_Witness ==
    \E i \in Slots :
        /\ Done(i) /\ ByUrl(i) /\ UrlTimeout(req[i]) /\ req[i].calls.dataset = 30
        /\ req[i].waited_time = 600 /\ ~req[i].resp.success

\* C16: the dataset of a run is asked for only after a status poll has
\* answered SUCCEEDED; a request whose run ended FAILED, ABORTED or
\* TIMED-OUT is answered with a failure and has asked for no dataset.
C16_DatasetOnlyAfterSuccess ==
    \A i \in Slots :
        /\ req[i].calls.dataset > 0 =>
                req[i].calls.status > 0 /\ req[i].status = "SUCCEEDED"
        /\ Done(i) /\ req[i].status \in TerminalStatuses \ {"SUCCEEDED"} =>
                Failed(i) /\ req[i].calls.dataset = 0

\* the answer to the last job-creation call the request made
LastCreation(r) == IF r.calls.create = 2 THEN r.alt ELSE r.start
\* a job-creation call was answered with a success status and a run id
RunCreated(i) ==
    LET ans == LastCreation(req[i])
    IN  /\ req[i].calls.create > 0
        /\ ans.kind = "http"
        /\ IF ByUrl(i) THEN ans.status \in {200, 201} /\ ans.run \in {"id", "data.id"}
                       ELSE ans.status = 201 /\ ans.has_id
\* the request has asked for the status or for the dataset of a run
Polled(i) == req[i].calls.status > 0 \/ req[i].calls.dataset > 0
\* the request is over without a poll and without a profile of the vendor:
\* with a failure or, for a rate limit at /apify_scraper/scrape, the
\* synthetic profile
EndedAtStart(i) ==
    /\ ~Polled(i)
    /\ Failed(i) \/ (ByScraper(i) /\ StartRateLimited(req[i]))

\* C17 (as the code has it): a status or a dataset is asked for only when
\* a job-creation call of the request was answered with a success status
\* and a body that holds a run id; scrape_profile_with_apify makes a
\* second creation call when the first is refused, and a request whose
\* last creation call was refused, or gave no run id, ends without a poll.
C17_PollsOnlyAfterCreation ==
    \A i \in Slots :
        /\ Polled(i) \/ Polling(i) => RunCreated(i)
        /\ Done(i) /\ req[i].calls.create > 0 /\ ~RunCreated(i) => EndedAtStart(i)

\* the first creation call is refused, the second gives a run id, and the
\* run is polled
C17_Witness ==
    \E i \in Slots :
        /\ Done(i) /\ ByUrl(i) /\ req[i].calls.create = 2
        /\ req[i].start.kind = "http" /\ req[i].start.status = 500
        /\ RunCreated(i) /\ req[i].calls.dataset > 0

\* C17: a status or a dataset is asked for only when the job-creation call
\* was answered with a success status and a run id; a request with a
\* creation call that was refused, or gave no run id, ends with a start
\* error and without a poll.
C17_NoPollAfterRefusal ==
    \A i \in Slots :
        /\ Polled(i) \/ Polling(i) => RunCreated(i)
        /\ req[i].calls.create = 2 => ~Polling(i) /\ (Done(i) => EndedAtStart(i))
        /\ Done(i) /\ req[i].calls.create > 0 /\ ~RunCreated(i) => EndedAtStart(i)

\* the first job-creation call of the request was refused
FirstRefused(r) == r.start.kind = "http" /\ r.start.status \notin {200, 201}

\* C18 (as the code has it): a request of apify_scrape_social_profile
\* makes at most one job-creation call; a request of
\* scrape_profile_with_apify makes at most two, the second, at the
\* run-sync URL, only when the first was answered with a status other
\* than 200 and 201; either polls within one poll loop at most.
C18_CreationCalls ==
    \A i \in Slots :
        /\ ByScraper(i) => req[i].calls.create <= 1 /\ req[i].calls.dataset <= 1
        /\ ByUrl(i) =>
                /\ req[i].calls.create <= 2
                /\ req[i].calls.create = 2 => FirstRefused(req[i])
                /\ req[i].calls.dataset <= max_attempts * PollUrls
        /\ req[i].calls.status <= MaxPolls

\* a second creation call has been made after a refusal of the first, and
\* was refused as well
C18_Witness ==
    \E i \in Slots :
        /\ Done(i) /\ ByUrl(i) /\ req[i].calls.create = 2 /\ FirstRefused(req[i])
        /\ req[i].alt.kind = "http" /\ req[i].alt.status = 500
        /\ req[i].resp = UrlFailure("Apify API error with both URL formats")

\* C18: a request makes at most one job-creation call and runs at most
\* one poll loop, also when its first creation call is refused.
C18_OneCreationCall ==
    \A i \in Slots :
        /\ req[i].calls.create <= 1
        /\ req[i].calls.status <= MaxPolls
        /\ req[i].calls.dataset <= IF ByUrl(i) THEN max_attempts * PollUrls ELSE 1

\* the last answer to a poll of scrape_profile_with_apify was a dataset
\* that holds nothing
EmptyDataset(r) == r.dataset = [kind |-> "http", status |-> 200, body |-> JList(<<>>)]

\* C19: a request whose run gave an empty dataset has stopped polling at
\* that answer and ends with a success that carries a synthetic profile,
\* at each of the endpoints and for every platform.
C19_EmptyDatasetNoData ==
    \A i \in Slots :
        /\ Done(i) /\ ByScraper(i) /\ EmptyResult(req[i]) => Succeeded(i)
        /\ Done(i) /\ ByUrl(i) /\ EmptyDataset(req[i]) =>
                /\ req[i].resp.success
                /\ req[i].calls.dataset < max_attempts * PollUrls

\* C20: the HTTP session of a request is open only between the job
\* creation and the end of the polls or of the dataset fetch; a request
\* that is over has released the session it opened, however it ended, and
\* a request that made no call to the vendor opened none.
C20_SessionReleased ==
    \A i \in Slots :
        /\ req[i].session = "open" => req[i].pc \in {"poll", "fetch", "url_poll"}
        /\ Done(i) =>
                req[i].session = IF req[i].calls.create > 0 THEN "closed" ELSE "none"
        /\ req[i].pc = "idle" => req[i].session = "none"

\* a request is over after the timeout of its polls, with its session
\* released
C20_Witness ==
    \E i \in Slots :
        /\ Done(i) /\ req[i].session = "closed"
        /\ ByUrl(i) /\ UrlTimeout(req[i]) /\ req[i].calls.create = 2

----------------------------------------------------------------------------
(* C21: the keys of a metric *)

\* the keys of a metric in the order in which the mapping of the platform
\* tries them (lines 274-276, 483-491, 503, 531-551)
PriorityKeys(platform, metric) ==
    CASE platform = "instagram" /\ metric = "followers" -> <<"followersCount">>
      [] platform = "instagram" /\ metric = "following" -> <<"followsCount">>
      [] platform = "instagram" /\ metric = "posts" -> <<"postsCount">>
      [] platform = "facebook" /\ metric = "followers" ->
            <<"likesCount", "likes_count", "likes", "followersCount", "followers_count",
              "followers">>
      [] platform = "facebook" /\ metric = "posts" -> <<"postsCount">>
      [] platform = "youtube" /\ metric = "followers" ->
            <<"subscriberCount", "subscriber_count", "subscribers", "subscribersCount">>
      [] platform = "youtube" /\ metric = "views" ->
            <<"viewCount", "view_count", "views", "viewsCount">>
      [] platform = "youtube" /\ metric = "posts" ->
            <<"videoCount", "video_count", "videos", "videosCount">>
      [] OTHER -> <<>>

\* the value of the first of the keys that the item holds with a value
\* other than null, and 0 when it holds none of them
RECURSIVE FirstPresent(_, _)
FirstPresent(item, keys) ==
    IF Len(keys) = 0 THEN JNum(0)
    ELSE IF HasKey(item, Head(keys)) /\ item.d[Head(keys)] # PyNone
    THEN item.d[Head(keys)]
    ELSE FirstPresent(item, Tail(keys))

\* the mapping of a fetched profile has given a record
ProfileMapped ==
    /\ norm_in.fn = "apify_scrape_social_profile"
    /\ norm_in.platform \in {"instagram", "facebook", "youtube"}
    /\ IsScrapedData(norm_out.result) /\ norm_out.result.source = "real"

\* C21: every metric of a mapped record (followers, following, posts,
\* views) is the value of the first key of the metric's priority list that
\* the profile holds with a value other than null, also when that value is
\* 0, and 0 when the profile holds none of them.
C21_FirstPresentKey ==
    ProfileMapped =>
        LET item == norm_in.payload.items[1]
            result == norm_out.result
        IN  \A metric \in {"followers", "following", "posts", "views"} :
                PriorityKeys(norm_in.platform, metric) # <<>> =>
                    result[metric] = FirstPresent(item, PriorityKeys(norm_in.platform, metric))

----------------------------------------------------------------------------
(* C22: the synthetic record of a user *)

\* the call is the remembered one, made again
Repeated(e) == e.call = norm_in /\ norm_in.fn = "generate_fallback_data"

\* C22: a synthetic generation for the platform and the username of a
\* remembered earlier one gives the followers, following, posts,
\* engagement, growth, likes, comments and shares that one gave, whatever
\* was generated or mapped in between and whatever state that left the
\* shared random generator in.
C22_SameSynthetic ==
    \A e \in norm_log :
        Repeated(e) => e.fields = SyntheticFields(norm_out.result)

\* a generation for instagram and alice is repeated after other calls
C22_Witness ==
    \E e \in norm_log :
        /\ Repeated(e) /\ e.between
        /\ norm_in.platform = "instagram" /\ norm_in.username = "alice"
        /\ e.fields = SyntheticFields(norm_out.result)
        /\ e.fields.followers.n > 0

----------------------------------------------------------------------------
(* Claims about the rate-limit ledgers *)

\* the key of the request of slot i in the platform-keyed ledger
KeyOf(r) == rate_limit_key(Lower(r.platform))
\* the request sleeps between its check and its ledger write
Asleep(i) == req[i].pc = "rate_sleep"
\* the time the request found in the ledger when it made its check
SeenAtCheck(r) == r.current_time - r.time_since_last_request
\* the request of slot i leaves its sleep in this step
Wakes(i) == Asleep(i) /\ req'[i] # req[i]

\* C23: the check and the ledger write of the platform-keyed limiter are
\* apart: a request that passes the check into the sleep writes nothing,
\* and when its sleep is over it writes the time it read before the sleep
\* and goes on to the job start (for tiktok, to the synthetic answer)
\* without a second check, also when another request for its key passed
\* the check or wrote its time in the meantime.
C23_RacePastCheck ==
    [][\A i \in Slots :
          /\ Arrives(i) /\ req'[i].pc = "rate_sleep" =>
                apify_last_scrape_times' = apify_last_scrape_times
          /\ Wakes(i) =>
                /\ req'[i].pc \in {"start", "done"}
                /\ req'[i].pc = "done" =>
                        Lower(req[i].platform) = "tiktok" /\ req'[i].resp.success
                /\ apify_last_scrape_times'[KeyOf(req[i])] = req[i].current_time]_vars

\* two requests for one platform have passed the check on the same ledger
\* entry; the first has written its time and run its job, and the second,
\* which came less than 30 seconds from it, is still in its sleep
C23_Witness ==
    \E i, j \in Slots :
        /\ i # j /\ KeyOf(req[i]) = KeyOf(req[j])
        /\ Done(i) /\ req[i].slept # Unset /\ req[i].calls.create = 1
        /\ Asleep(j)
        /\ SeenAtCheck(req[j]) = SeenAtCheck(req[i])
        /\ apify_last_scrape_times[KeyOf(req[j])] = req[i].current_time
        /\ apify_last_scrape_times[KeyOf(req[j])] > SeenAtCheck(req[j])
        /\ req[j].current_time - req[i].current_time
                < apify_MIN_SCRAPE_INTERVAL * TicksPerSecond
        /\ req[i].current_time - req[j].current_time
                < apify_MIN_SCRAPE_INTERVAL * TicksPerSecond

\* the request of slot i is answered with a rate-limit rejection: the
\* rate-limiting error of the platform-keyed limiter or the HTTP 429 of the
\* platform+username-keyed one
Rejected(r) ==
    /\ r.pc = "done"
    /\ \/ r.resp.kind = "http_error"
       \/ r.resp.kind = "response" /\ ~r.resp.success /\ r.resp.error = ErrRateLimiting
\* the key of the request in the platform+username-keyed ledger
SocialKeyOf(r) == social_key(r.platform, r.username)
\* the time under key is at least interval seconds back, or there is none
WindowOver(ledger, key, interval) ==
    key \in DOMAIN ledger => now - ledger[key] >= interval * TicksPerSecond

\* C24: a request that a rate limiter rejects leaves both ledgers as they
\* were, and a request that comes at least 30 seconds after the time
\* recorded for its platform (and, at /social_scraper/scrape, at least 600
\* seconds after the time recorded for its platform and username) is
\* neither rejected by a rate limiter nor put to sleep.
C24_RejectionLeavesLedgers ==
    [][\A i \in Slots :
          /\ Arrives(i) /\ Rejected(req'[i]) =>
                /\ apify_last_scrape_times' = apify_last_scrape_times
                /\ social_last_scrape_times' = social_last_scrape_times
          /\ /\ Arrives(i)
             /\ WindowOver(apify_last_scrape_times, KeyOf(req'[i]), apify_MIN_SCRAPE_INTERVAL)
             /\ req'[i].entry = "social" =>
                    WindowOver(social_last_scrape_times, SocialKeyOf(req'[i]),
                               social_MIN_SCRAPE_INTERVAL)
             => ~Rejected(req'[i]) /\ req'[i].pc # "rate_sleep"]_vars

\* C25: no step lowers the time that a ledger holds for a key.
C25_LedgerNeverDecreases ==
    [][/\ \A key \in DOMAIN apify_last_scrape_times :
              apify_last_scrape_times'[key] >= apify_last_scrape_times[key]
       /\ \A key \in DOMAIN social_last_scrape_times :
              social_last_scrape_times'[key] >= social_last_scrape_times[key]]_vars

\* the delegated call has turned the request away: the platform is not
\* supported, or the request fell in the tight window of its platform
TurnedAway(r) ==
    /\ r.pc = "done" /\ r.entry = "social" /\ r.resp.kind = "response"
    /\ ~r.resp.success
    /\ r.resp.error \in {ErrRateLimiting, ErrNotSupported(Lower(r.platform))}
    /\ r.calls = NoCalls

\* C26: a request at /social_scraper/scrape that passes the platform and
\* username check has its time recorded under its platform and username
\* before the call is delegated, also when the delegated call turns it
\* away without a scrape; and a request that comes less than 600 seconds
\* after the time recorded under its platform and username is answered
\* with HTTP 429, whatever became of the request that recorded it.
C26_SlotConsumedBeforeDelegation ==
    /\ [](\A i \in Slots :
            TurnedAway(req[i]) =>
                /\ SocialKeyOf(req[i]) \in DOMAIN social_last_scrape_times
                /\ social_last_scrape_times[SocialKeyOf(req[i])] = req[i].current_time)
    /\ [][\A i \in Slots :
            Arrives(i) /\ req'[i].entry = "social" =>
                LET key == SocialKeyOf(req'[i])
                IN  IF /\ key \in DOMAIN social_last_scrape_times
                       /\ now - social_last_scrape_times[key]
                              < social_MIN_SCRAPE_INTERVAL * TicksPerSecond
                    THEN /\ req'[i].resp.kind = "http_error" /\ req'[i].resp.http = 429
                         /\ social_last_scrape_times' = social_last_scrape_times
                    ELSE social_last_scrape_times'[key] = now]_vars

\* a retry 12 seconds after a request for instagram and bob that the
\* platform limiter turned away (the platform's entry is older than the
\* one of instagram and bob) is answered with HTTP 429
C26_Witness ==
    \E i \in Slots :
        LET key == SocialKeyOf(req[i])
        IN  /\ Done(i) /\ req[i].entry = "social"
            /\ req[i].resp.kind = "http_error" /\ req[i].resp.http = 429
            /\ key \in DOMAIN social_last_scrape_times
            /\ KeyOf(req[i]) \in DOMAIN apify_last_scrape_times
            /\ apify_last_scrape_times[KeyOf(req[i])] < social_last_scrape_times[key]
            /\ social_last_scrape_times[key] < now
            /\ arrivals = 3

----------------------------------------------------------------------------
(* C27: the platforms of a scrape request *)

\* the request is answered with the unsupported-platform response
AnsweredUnsupported(i) ==
    /\ Answered(i) /\ Failed(i)
    /\ req[i].resp.error = ErrNotSupported(Lower(req[i].platform))
\* the request is answered with the HTTP 429 of /social_scraper/scrape
Answered429(i) ==
    /\ Done(i) /\ req[i].entry = "social"
    /\ req[i].resp.kind = "http_error" /\ req[i].resp.http = 429

----------------------------------------------------------------------------
(* C28: tiktok *)

ForTiktok(r) == Lower(r.platform) = "tiktok"

\* C28: a request for tiktok never starts a vendor job, opens no session
\* and makes no call; unless a rate limiter rejects it, it is answered
\* with the synthetic record of its username, and its time is then the
\* one recorded for tiktok in the platform-keyed ledger.
C28_TiktokSynthetic ==
    \A i \in Slots :
        ForTiktok(req[i]) =>
            /\ req[i].pc \in {"rate_sleep", "done"}
            /\ req[i].calls = NoCalls /\ req[i].session = "none"
            /\ Done(i) /\ ~Rejected(req[i]) =>
                    /\ Succeeded(i)
                    /\ req[i].resp.data = SyntheticData("tiktok", req[i].username)
                    /\ KeyOf(req[i]) \in DOMAIN apify_last_scrape_times
                    /\ apify_last_scrape_times[KeyOf(req[i])] = req[i].current_time

\* a request for tiktok is answered with the synthetic record after the
\* sleep of the rate-limit step
C28_Witness ==
    \E i \in Slots :
        /\ ForTiktok(req[i]) /\ Done(i) /\ Succeeded(i)
        /\ req[i].slept # Unset /\ req[i].current_time > 0
        /\ req[i].resp.data = SyntheticData("tiktok", "alice")
        /\ apify_last_scrape_times[KeyOf(req[i])] = req[i].current_time

----------------------------------------------------------------------------
(* C29: what /social_scraper/scrape answers *)

\* the request at /social_scraper/scrape went past the check of lines 767-776
\* and its delegated call has returned
Delegated(r) == r.pc = "done" /\ r.entry = "social" /\ r.delegated # NoResp

\* C29: a request at /social_scraper/scrape that is not answered with HTTP
\* 429 is answered with what the delegated call returned and nothing else:
\* success with the call's data exactly when the call succeeded, and
\* otherwise a failure with the call's error and no data.
C29_MirrorsDelegatedCall ==
    \A i \in Slots :
        Done(i) /\ req[i].entry = "social" /\ ~Answered429(i) =>
            /\ Delegated(req[i]) /\ Answered(i)
            /\ req[i].resp.success = req[i].delegated.success
            /\ IF req[i].delegated.success
               THEN /\ req[i].resp.data = req[i].delegated.data
                    /\ req[i].resp.error = PyNone
               ELSE /\ req[i].resp.data = PyNone
                    /\ req[i].resp.error = req[i].delegated.error

\* a delegated call that failed after polling its job, passed on
C29_Witness ==
    \E i \in Slots :
        /\ Delegated(req[i]) /\ Failed(i)
        /\ req[i].calls.status > 0
        /\ ~req[i].delegated.success
        /\ req[i].resp.error = req[i].delegated.error

----------------------------------------------------------------------------
(* C30: the followers of a series *)

\* C30: in the list generate_time_series gives, read from the oldest day
\* to today, the followers never go down, and today's entry, the last,
\* has the follower count the function was called with.
C30_FollowersNonDecreasing ==
    SeriesCalled =>
        LET entries == norm_out.result.items
        IN  /\ \A k \in 1..(Len(entries) - 1) :
                    entries[k].followers <= entries[k + 1].followers
            /\ entries[Len(entries)].followers = norm_in.followers

\* a series for 12000 followers whose oldest entry has fewer of them
C30_Witness ==
    /\ SeriesCalled
    /\ norm_in.followers = 12000
    /\ Len(norm_out.result.items) = SERIES_DAYS
    /\ norm_out.result.items[1].followers < 12000
    /\ norm_out.result.items[SERIES_DAYS].followers = 12000

====
